---- MODULE Spec2Model ----
(***************************************************************************)
(* Find-your-Team: the multi-protocol communication client, its            *)
(* Flask/SocketIO binding and the integration agent, as state machines.    *)
(*                                                                         *)
(* Specifications                                                          *)
(*   SpecClient : MultiProtocolClient instances built inside a running     *)
(*                asyncio loop (multi_protocol_client.py main()), sharing  *)
(*                the SQLite offline queue file.                           *)
(*   SpecServer : CommunicationManager (flask_integration.py) and the      *)
(*                clients it creates.                                      *)
(*   SpecShared : the clients of several users in one process and their    *)
(*                retry loops.                                             *)
(*   SpecInteg  : IntegrationAgent (integration_agent.py).                 *)
(*   SpecRetry  : one run of IntegrationAgent._execute_with_retries.       *)
(***************************************************************************)
EXTENDS Integers, Sequences, FiniteSets, TLC

VARIABLES
    has_loop,       \* the thread that runs the socket handlers has a running asyncio loop
    clients,        \* CommunicationManager.clients: user_id -> MultiProtocolClient
    user_sessions,  \* CommunicationManager.user_sessions: user_id -> session id
    session_users,  \* CommunicationManager.session_users: session id -> user_id
    queue,          \* rows of table messages in data/offline_messages.db
    clock,          \* source of Message.id / Message.timestamp
    tasks,          \* work submitted to the ThreadPoolExecutor and not yet run
    reqs,           \* history: one record per send_message event received
    last_op,        \* history: the operation that ran last, with what it did
    fail_cycles     \* history: message id -> drain cycles in which every send failed

commVars == <<has_loop, clients, user_sessions, session_users, queue, clock,
              tasks, reqs, last_op, fail_cycles>>

VARIABLES
    session,              \* IntegrationAgent.session is an open aiohttp.ClientSession
    _integration_cache,   \* IntegrationAgent._integration_cache: id -> IntegrationConfig
    integrations_table,   \* items of the DynamoDB integrations table: id -> item
    http_requests,        \* history: HTTP requests issued so far
    uuids,                \* integration ids handed out by uuid.uuid4() so far
    last_call             \* history: the agent operation that ran last

integVars == <<session, _integration_cache, integrations_table, http_requests,
               uuids, last_call>>

VARIABLES
    call_retries,   \* _execute_with_retries: api_call.retries
    attempt,        \* _execute_with_retries: the loop variable
    last_error,     \* _execute_with_retries: the local of that name
    retry_outcome,  \* "running", "returned" or "raised"
    errors,         \* history: the exception of every failed attempt, in order
    sleeps          \* history: the arguments of asyncio.sleep, in order

retryVars == <<call_retries, attempt, last_error, retry_outcome, errors, sleeps>>

VARIABLES
    time_now,          \* datetime.now(), in hours
    webhook_handlers   \* IntegrationAgent.webhook_handlers: key -> handler

agentVars == <<time_now, webhook_handlers>>

VARIABLES
    wf_steps,     \* orchestrate_workflow: workflow_config['steps']
    wf_pos,       \* orchestrate_workflow: steps the loop has gone through
    wf_results,   \* orchestrate_workflow: the local results
    wf_state      \* "idle", "running" or "returned"

flowVars == <<wf_steps, wf_pos, wf_results, wf_state>>

VARIABLES
    memory_table   \* items of the ConversationMemory table: conversation id -> memory

onbVars == <<memory_table>>

VARIABLES
    conversation_sessions,   \* aws_app.conversation_sessions: session id -> session
    user_profiles_table,     \* items of the user profiles table: userId -> profile
    reports_table            \* items of the performance reports table, in order

webVars == <<conversation_sessions, user_profiles_table>>

VARIABLES
    protocol_status,   \* MultiProtocolClient.protocol_status of one client
    sub_status,        \* protocol -> status of the protocol client, once created
    status_handlers,   \* MultiProtocolClient.status_handlers
    status_calls       \* history: the calls of status handlers by the last step

statusVars == <<protocol_status, sub_status, status_handlers, status_calls>>

VARIABLES
    running,    \* NotificationService.running
    thread,     \* NotificationService.thread: a thread id, 0 for None
    threads,    \* thread id -> the state of that detection thread
    ns_call     \* how many callers of stop wait in join

notifVars == <<running, thread, threads, ns_call>>

VARIABLES
    init_calls,   \* running calls of _initialize_user_client: caller -> its position
    created       \* user_id -> how many MultiProtocolClient objects were built for it

initVars == <<init_calls, created>>

VARIABLES
    chat_file,    \* the messages stored in the chat_messages JSON file
    chat_reqs,    \* running /send_message requests: request -> position and locals
    chat_acked,   \* messages answered with 'Message sent successfully'
    chat_read,    \* the answer of the last /get_messages
    chat_names    \* the routes' bare names resolve to the DataManager methods

chatVars == <<chat_file, chat_reqs, chat_acked, chat_read, chat_names>>

raceVars == <<initVars, chatVars>>

appVars == <<webVars, reports_table, statusVars, notifVars, raceVars>>

\* the state of the operations that are modelled on their own
unitVars == <<retryVars, agentVars, flowVars, onbVars, appVars>>

\* what the actions of one component leave alone
notComm == <<integVars, unitVars>>
notInteg == <<commVars, unitVars>>
notRetry == <<commVars, integVars, agentVars, flowVars, onbVars, appVars>>

vars == <<commVars, integVars, unitVars>>

-----------------------------------------------------------------------------
(* Bounds *)

MaxBacklog == 11      \* rows already in the queue file when the process starts
MaxNew == 1           \* messages created by send_message
MaxRequests == 1      \* send_message events received by the server
MaxIntegrations == 2  \* calls of register_integration
MaxHttp == 4          \* HTTP requests issued by the integration agent
MaxRetries == 3       \* largest api_call.retries
MaxSteps == 3         \* longest workflow_config['steps']
MaxEndpoints == 3     \* longest sync_config['endpoints']
MaxErrors == 12       \* largest error_count a failure is added to
MaxHours == 48        \* hours the clock runs
MaxHandlers == 3      \* calls of register_webhook_handler
MaxTurns == 8         \* messages a user sends in one conversation
MaxEvents == 2        \* calls of handle_webhook_event
MaxChat == 3          \* messages posted to /api/onboard
MaxHits == 2          \* hits the search index holds
MaxAnalyses == 3      \* calls of analyze_team_performance
MaxStatusHandlers == 2 \* status handlers registered with one client
MaxReplies == 3       \* messages one started conversation receives
MaxConversations == 2 \* conversations the memory table holds
MaxStamp == 11        \* latest creation time of a message in SpecDrain
MaxStarts == 3        \* detection threads a service starts
MaxChecks == 2        \* notification checks of one detection thread
MaxCallers == 2       \* callers of stop that wait in join at once
MaxSenders == 2       \* /send_message requests handled at the same time
MaxPosts == 3         \* chat messages posted

\* the sub-clients' send results may change once during a drain cycle: after
\* the first message of the batch (1) or not at all (0)
CutPoints == {0, 1}

Users == {"u1", "u2"}
Sessions == {"s1", "s2"}

-----------------------------------------------------------------------------
(* Enumerations of multi_protocol_client.py *)

DISCONNECTED == "disconnected"
CONNECTED == "connected"
FAILED == "failed"
CONNECTING == "connecting"

LOW == 1
NORMAL == 2
HIGH == 3
CRITICAL == 4

MessagePriority == {LOW, NORMAL, HIGH, CRITICAL}

MQTT == "mqtt"
WEBRTC == "webrtc"
OFFLINE_QUEUE == "offline_queue"

\* statuses the connection callbacks hand to _update_protocol_status. The
\* client only ever tests a status for equality with CONNECTED, so FAILED,
\* which behaves as DISCONNECTED everywhere, is left out of the inputs.
TrackedStatus == {DISCONNECTED, CONNECTED}

\* priorities given to new messages: the default and the highest
SendPriority == {NORMAL, CRITICAL}

LiveProtocols == {MQTT, WEBRTC}

max_retries == 3
BatchLimit == 10

-----------------------------------------------------------------------------
(* Maps (Python dicts) *)

EmptyMap == [k \in {} |-> k]
MapPut(f, k, v) == [x \in (DOMAIN f) \cup {k} |-> IF x = k THEN v ELSE f[x]]
MapDel(f, k) == [x \in (DOMAIN f) \ {k} |-> f[x]]

Min(a, b) == IF a < b THEN a ELSE b

-----------------------------------------------------------------------------
(* Message and OfflineQueue *)

\* Message.__init__: retry_count 0; id and timestamp are fresh
Message(sender, priority, now) ==
    [id |-> now, sender_id |-> sender, priority |-> priority,
     timestamp |-> now, retry_count |-> 0]

\* OfflineQueue.enqueue: INSERT INTO messages
enqueue(q, message) == q \cup {message}

\* OfflineQueue.remove: DELETE FROM messages WHERE id = ?
remove(q, message_id) == {r \in q : r.id # message_id}

\* OfflineQueue.update_retry_count: UPDATE messages SET retry_count = ? WHERE id = ?
update_retry_count(q, message_id, retry_count) ==
    {IF r.id = message_id THEN [r EXCEPT !.retry_count = retry_count] ELSE r : r \in q}

\* OfflineQueue.get_queue_size: SELECT COUNT(*) FROM messages
get_queue_size(q) == Cardinality(q)

\* the ORDER BY clause with the priority ascending
OrderedBefore_ascending(a, b) ==
    \/ a.priority < b.priority
    \/ a.priority = b.priority /\ a.timestamp < b.timestamp
    \/ a.priority = b.priority /\ a.timestamp = b.timestamp /\ a.id < b.id

\* ORDER BY priority DESC, timestamp ASC
OrderedBefore(a, b) ==
    \/ a.priority > b.priority
    \/ a.priority = b.priority /\ a.timestamp < b.timestamp
    \/ a.priority = b.priority /\ a.timestamp = b.timestamp /\ a.id < b.id

OrderRows(q) ==
    LET rank == [r \in q |-> Cardinality({o \in q : OrderedBefore(o, r)})]
    IN  [i \in 1..Cardinality(q) |-> CHOOSE r \in q : rank[r] = i - 1]

\* OfflineQueue.dequeue_batch: SELECT ... ORDER BY ... LIMIT ?
dequeue_batch(q, limit) ==
    LET rows == OrderRows(q) IN SubSeq(rows, 1, Min(limit, Len(rows)))

Ids(q) == {r.id : r \in q}

-----------------------------------------------------------------------------
(* MultiProtocolClient *)

\* MultiProtocolClient.__init__: protocol_status, in dict insertion order
ProtocolStatusKeys == <<MQTT, WEBRTC, OFFLINE_QUEUE>>

InitialProtocolStatus ==
    [p \in {MQTT, WEBRTC, OFFLINE_QUEUE} |->
        IF p = OFFLINE_QUEUE THEN CONNECTED ELSE DISCONNECTED]

\* a constructed client; _start_background_tasks has created the retry task
NewClient == [protocol_status |-> InitialProtocolStatus, retry_task |-> TRUE]

\* send_message: protocol_order
protocol_order == <<WEBRTC, MQTT>>

\* _send_via_protocol: the MQTT or WebRTC sub-client's send_message result
\* (ok[protocol]); any other protocol is not sent
_send_via_protocol(protocol, ok) ==
    IF protocol = MQTT THEN ok[MQTT]
    ELSE IF protocol = WEBRTC THEN ok[WEBRTC]
    ELSE FALSE

\* MQTTClient.send_message / WebRTCClient.send_message: the results a send
\* over each protocol can have; a sub-client that is not connected returns False
SendResults(status) ==
    {ok \in [LiveProtocols -> BOOLEAN] :
        \A p \in LiveProtocols : ok[p] => status[p] = CONNECTED}

\* send_message, the for loop: returns at the first send that succeeds
RECURSIVE SendLoop(_, _, _, _, _)
SendLoop(order, status, ok, tried, results) ==
    IF order = <<>> THEN [tried |-> tried, results |-> results, delivered |-> <<>>]
    ELSE LET protocol == Head(order) IN
         IF status[protocol] = CONNECTED
         THEN IF _send_via_protocol(protocol, ok)
              THEN [tried |-> Append(tried, protocol),
                    results |-> Append(results, TRUE), delivered |-> <<protocol>>]
              ELSE SendLoop(Tail(order), status, ok, Append(tried, protocol),
                            Append(results, FALSE))
         ELSE SendLoop(Tail(order), status, ok, tried, results)

\* send_message enqueueing whether or not a send succeeded
QueuedAfterSend_always(q, message, sent) == enqueue(q, message)

\* send_message, after the loop: what is enqueued when no send succeeded
QueuedAfterSend(q, message, sent) ==
    IF sent THEN q ELSE enqueue(q, message)

\* MultiProtocolClient.send_message for the client of user_id
send_message(user_id, priority, ok) ==
    LET message == Message(user_id, priority, clock)
        status == clients[user_id].protocol_status
        r == SendLoop(protocol_order, status, ok, <<>>, <<>>)
        q == QueuedAfterSend(queue, message, r.delivered # <<>>)
    IN  /\ queue' = q
        /\ clock' = clock + 1
        /\ fail_cycles' = MapPut(fail_cycles, message.id, 0)
        /\ last_op' = [op |-> "send_message", id |-> message.id, sender |-> user_id,
                       status |-> status, tried |-> r.tried, results |-> r.results,
                       delivered |-> r.delivered, in_queue |-> message \in q,
                       returned |-> TRUE]

\* _process_offline_queue: available_protocols
available_protocols(status) ==
    SelectSeq(ProtocolStatusKeys,
              LAMBDA p : status[p] = CONNECTED /\ p # OFFLINE_QUEUE)

\* _process_offline_queue, "for protocol in available_protocols"
RECURSIVE TryAvailable(_, _, _, _)
TryAvailable(available, ok, tried, results) ==
    IF available = <<>> THEN [tried |-> tried, results |-> results, success |-> FALSE]
    ELSE LET protocol == Head(available)
             sent == _send_via_protocol(protocol, ok)
         IN  IF sent
             THEN [tried |-> Append(tried, protocol),
                   results |-> Append(results, TRUE), success |-> TRUE]
             ELSE TryAvailable(Tail(available), ok, Append(tried, protocol),
                               Append(results, FALSE))

\* the discard test with > in place of >=
Exhausted_late(retry_count) == retry_count > max_retries

\* _process_offline_queue: "if message.retry_count >= message.max_retries"
Exhausted(retry_count) == retry_count >= max_retries

\* "if not success" storing the new retry count whatever it is
AfterFailure_keeping(message) ==
    {[message EXCEPT !.retry_count = message.retry_count + 1]}

\* _process_offline_queue, "if not success": the row of a message whose
\* sends all failed, as a set (empty when the message is discarded)
AfterFailure(message) ==
    LET retry_count == message.retry_count + 1 IN
    IF Exhausted(retry_count) THEN {}
    ELSE {[message EXCEPT !.retry_count = retry_count]}

\* _process_offline_queue, body of "for message in messages"
ProcessMessage(message, available, ok) ==
    LET r == TryAvailable(available, ok, <<>>, <<>>) IN
    [id |-> message.id, sender |-> message.sender_id, tried |-> r.tried,
     results |-> r.results, success |-> r.success,
     rows |-> IF r.success THEN {} ELSE AfterFailure(message)]

\* _process_offline_queue, "for message in messages"; okAt[i] are the send
\* results the sub-clients give while message i of the batch is processed.
\* id is the primary key, so every iteration removes or updates its own row.
ProcessBatch(messages, available, okAt, q) ==
    LET attempts == [i \in 1..Len(messages) |->
                        ProcessMessage(messages[i], available, okAt[i])]
        batch == {messages[i] : i \in 1..Len(messages)}
    IN  [queue |-> (q \ batch) \cup UNION {attempts[i].rows : i \in 1..Len(messages)},
         attempts |-> [i \in 1..Len(messages) |->
                          [id |-> attempts[i].id, sender |-> attempts[i].sender,
                           tried |-> attempts[i].tried, results |-> attempts[i].results,
                           success |-> attempts[i].success]]]

\* _process_offline_queue: the two early returns
DrainRuns(q, available) == get_queue_size(q) # 0 /\ available # <<>>

\* one cycle of retry_loop: MultiProtocolClient._process_offline_queue
_process_offline_queue(user_id, cut, okA, okB) ==
    \E status \in {clients[user_id].protocol_status} :
    \E available \in {available_protocols(status)} :
    \E messages \in {dequeue_batch(queue, BatchLimit)} :
    \E r \in {IF DrainRuns(queue, available)
              THEN ProcessBatch(messages, available,
                                [i \in 1..BatchLimit |->
                                    IF i <= cut THEN okA ELSE okB], queue)
              ELSE [queue |-> queue, attempts |-> <<>>]} :
    \E failed \in {{r.attempts[i].id : i \in {j \in 1..Len(r.attempts) : ~r.attempts[j].success}}} :
        /\ queue' = r.queue
        /\ fail_cycles' = [m \in DOMAIN fail_cycles |->
                              IF m \in failed THEN fail_cycles[m] + 1 ELSE fail_cycles[m]]
        /\ last_op' = [op |-> "_process_offline_queue", client |-> user_id,
                       status |-> status, before |-> queue,
                       attempts |-> r.attempts, after |-> r.queue]

\* _update_protocol_status, called by the sub-clients' connection callbacks
_update_protocol_status(user_id, protocol, status) ==
    clients' = [clients EXCEPT ![user_id].protocol_status[protocol] = status]

-----------------------------------------------------------------------------
(* State at start *)

\* rows a previous run of the process left in the queue file
BacklogRow(i) ==
    [id |-> i, sender_id |-> IF i % 2 = 1 THEN "u1" ELSE "u2",
     priority |-> (i % 4) + 1, timestamp |-> i, retry_count |-> i % max_retries]

Backlog(n) == {BacklogRow(i) : i \in 1..n}

NoOp == [op |-> "none"]

InitQueue(n) ==
    /\ queue = Backlog(n)
    /\ clock = MaxBacklog + 1
    /\ fail_cycles = [i \in 1..n |-> BacklogRow(i).retry_count]

InitHistory ==
    /\ reqs = <<>>
    /\ last_op = NoOp

\* IntegrationAgent.__init__: no session, empty cache; nothing registered yet
InitIntegration ==
    /\ session = FALSE
    /\ _integration_cache = EmptyMap
    /\ integrations_table = EmptyMap
    /\ http_requests = 0
    /\ uuids = 0
    /\ last_call = NoOp

\* a clock at 0, no webhook handler registered
InitNoAgent ==
    /\ time_now = 0
    /\ webhook_handlers = EmptyMap

\* no call of orchestrate_workflow has been made
InitNoFlow ==
    /\ wf_steps = <<>>
    /\ wf_pos = 0
    /\ wf_results = [steps |-> <<>>, success |-> TRUE, errors |-> <<>>]
    /\ wf_state = "idle"

\* no onboarding conversation has been started
InitNoOnboarding ==
    memory_table = EmptyMap

\* no multi-protocol client is looked at on its own
InitNoStatus ==
    /\ protocol_status = EmptyMap
    /\ sub_status = EmptyMap
    /\ status_handlers = <<>>
    /\ status_calls = <<>>

\* no NotificationService has been made
InitNoNotification ==
    /\ running = FALSE
    /\ thread = 0
    /\ threads = EmptyMap
    /\ ns_call = 0

\* the web application has served no request
InitNoWeb ==
    /\ conversation_sessions = EmptyMap
    /\ user_profiles_table = EmptyMap
    /\ reports_table = <<>>

\* no call of _initialize_user_client is running
InitNoInitialize ==
    /\ init_calls = EmptyMap
    /\ created = EmptyMap

\* the chat file is empty and no chat request is running
InitNoChat ==
    /\ chat_file = [json |-> TRUE, messages |-> <<>>]
    /\ chat_reqs = EmptyMap
    /\ chat_acked = {}
    /\ chat_read = [http |-> 0, messages |-> <<>>, acked |-> {}]
    /\ chat_names = TRUE

InitNoRace == InitNoInitialize /\ InitNoChat

InitNoApp ==
    /\ InitNoWeb
    /\ InitNoStatus
    /\ InitNoNotification
    /\ InitNoRace

\* no call of _execute_with_retries has been made
InitNoRetry ==
    /\ call_retries = 0
    /\ attempt = 0
    /\ last_error = "None"
    /\ retry_outcome = "idle"
    /\ errors = <<>>
    /\ sleeps = <<>>

\* messages created since the start
Created == clock - (MaxBacklog + 1)

-----------------------------------------------------------------------------
(* SpecClient: clients used directly, as in multi_protocol_client.py main() *)

InitClient ==
    /\ has_loop = TRUE
    /\ clients = [u \in {"u1"} |-> NewClient]
    /\ user_sessions = EmptyMap
    /\ session_users = EmptyMap
    /\ tasks = {}
    /\ \E n \in {0, MaxBacklog} : InitQueue(n)
    /\ InitHistory
    /\ InitIntegration
    /\ InitNoRetry
    /\ InitNoAgent
    /\ InitNoFlow
    /\ InitNoOnboarding
    /\ InitNoApp

serverOnly == <<has_loop, user_sessions, session_users, tasks, reqs>>

\* a connection callback of a sub-client reports a status
StatusChangeOf(protocols) ==
    \E u \in DOMAIN clients, p \in protocols, st \in TrackedStatus :
        /\ clients[u].protocol_status[p] # st
        /\ _update_protocol_status(u, p, st)
        /\ last_op' = [op |-> "_update_protocol_status"]
        /\ UNCHANGED <<queue, clock, fail_cycles>>
        /\ UNCHANGED serverOnly
        /\ UNCHANGED notComm

StatusChange == StatusChangeOf(LiveProtocols)

\* await client.send_message(...)
ClientSend ==
    \E u \in DOMAIN clients, priority \in SendPriority :
    \E ok \in SendResults(clients[u].protocol_status) :
        /\ Created < MaxNew
        /\ send_message(u, priority, ok)
        /\ UNCHANGED clients
        /\ UNCHANGED serverOnly
        /\ UNCHANGED notComm

\* retry_loop wakes up
RetryCycle ==
    \E u \in DOMAIN clients, cut \in CutPoints :
    \E okA \in SendResults(clients[u].protocol_status),
       okB \in SendResults(clients[u].protocol_status) :
        /\ clients[u].retry_task
        /\ cut = 0 => okA = okB
        /\ _process_offline_queue(u, cut, okA, okB)
        /\ UNCHANGED <<clients, clock>>
        /\ UNCHANGED serverOnly
        /\ UNCHANGED notComm

NextClient == StatusChange \/ ClientSend \/ RetryCycle

SpecClient == InitClient /\ [][NextClient]_vars

-----------------------------------------------------------------------------
(* CommunicationManager (flask_integration.py) *)

None == "None"

\* the priority values a send_message event may carry; 0 is not a MessagePriority
PriorityInputs == {NORMAL, 0}

\* MultiProtocolClient._start_background_tasks: asyncio.create_task needs a
\* running event loop in the calling thread and raises RuntimeError without one
_start_background_tasks(loop_running) ==
    IF loop_running THEN [raised |-> FALSE, retry_task |-> TRUE]
    ELSE [raised |-> TRUE]

\* MultiProtocolClient.__init__, which ends in _start_background_tasks()
MultiProtocolClient(loop_running) ==
    LET t == _start_background_tasks(loop_running) IN
    IF t.raised THEN [raised |-> TRUE]
    ELSE [raised |-> FALSE,
          client |-> [protocol_status |-> InitialProtocolStatus,
                      retry_task |-> t.retry_task]]

\* CommunicationManager._initialize_user_client: the clients map afterwards;
\* an exception of the constructor is logged and no client is stored
_initialize_user_client(cl, user_id, loop_running) ==
    IF user_id \in DOMAIN cl THEN cl
    ELSE LET c == MultiProtocolClient(loop_running) IN
         IF c.raised THEN cl ELSE MapPut(cl, user_id, c.client)

\* socket event join_user
handle_join_user(sid, user_id) ==
    /\ IF user_id = None
       THEN /\ last_op' = [op |-> "join_user", sid |-> sid, user_id |-> None,
                           emitted |-> "error"]
            /\ UNCHANGED <<user_sessions, session_users, clients>>
       ELSE /\ user_sessions' = MapPut(user_sessions, user_id, sid)
            /\ session_users' = MapPut(session_users, sid, user_id)
            /\ clients' = _initialize_user_client(clients, user_id, has_loop)
            /\ last_op' = [op |-> "join_user", sid |-> sid, user_id |-> user_id,
                           emitted |-> "joined"]
    /\ UNCHANGED <<has_loop, queue, clock, tasks, reqs, fail_cycles>>

\* _cleanup_user_session with the client dropped as well
ClientsAfterCleanup_dropped(cl, user_id) == MapDel(cl, user_id)

\* _cleanup_user_session: "We keep the client running for offline message processing"
ClientsAfterCleanup(cl, user_id) == cl

\* CommunicationManager._cleanup_user_session
_cleanup_user_session(user_id, session_id) ==
    /\ user_sessions' =
          IF user_id \in DOMAIN user_sessions /\ user_sessions[user_id] = session_id
          THEN MapDel(user_sessions, user_id) ELSE user_sessions
    /\ session_users' =
          IF session_id \in DOMAIN session_users
          THEN MapDel(session_users, session_id) ELSE session_users
    /\ clients' = ClientsAfterCleanup(clients, user_id)

\* socket event disconnect
handle_disconnect(sid) ==
    /\ IF sid \in DOMAIN session_users
       THEN /\ _cleanup_user_session(session_users[sid], sid)
            /\ last_op' = [op |-> "disconnect", sid |-> sid,
                           user_id |-> session_users[sid]]
       ELSE /\ UNCHANGED <<user_sessions, session_users, clients>>
            /\ last_op' = [op |-> "disconnect", sid |-> sid, user_id |-> None]
    /\ UNCHANGED <<has_loop, queue, clock, tasks, reqs, fail_cycles>>

\* socket event send_message; content is "" or a text
handle_send_message(sid, content, priority) ==
    LET n == Len(reqs) + 1
        bound == sid \in DOMAIN session_users
        user_id == IF bound THEN session_users[sid] ELSE None
        valid == priority \in MessagePriority
        \* 'Not authenticated' / ValueError of MessagePriority(...) /
        \* 'Message content required'
        rejected == ~bound \/ ~valid \/ content = ""
    IN  /\ IF rejected
           THEN UNCHANGED <<reqs, tasks>>
           ELSE /\ Len(reqs) < MaxRequests
                /\ reqs' = Append(reqs, [user_id |-> user_id,
                                         done |-> FALSE, outcomes |-> <<>>,
                                         bound_at_done |-> FALSE])
                /\ tasks' = tasks \cup {[req |-> n, user_id |-> user_id,
                                         priority |-> priority]}
        /\ last_op' = [op |-> "send_message_event", bound |-> bound,
                       content |-> content, priority_valid |-> valid,
                       emitted |-> IF rejected THEN "error" ELSE "message_sent",
                       dispatched |-> tasks' # tasks,
                       req |-> IF rejected THEN 0 ELSE n]
        /\ UNCHANGED <<has_loop, clients, user_sessions, session_users, queue,
                       clock, fail_cycles>>

\* _send_message_async emitting to every caller, bound or not
OutcomeEmitted_always(user_id, sessions) == TRUE

\* _send_message_async: "if user_id in self.user_sessions" before each emit
OutcomeEmitted(user_id, sessions) == user_id \in DOMAIN sessions

\* a pool worker runs CommunicationManager._send_message_async
_send_message_async(t) ==
    LET emits == OutcomeEmitted(t.user_id, user_sessions)
        finish(event) ==
            reqs' = [reqs EXCEPT ![t.req] =
                        [@ EXCEPT !.done = TRUE,
                                  !.bound_at_done = t.user_id \in DOMAIN user_sessions,
                                  !.outcomes = IF emits THEN Append(@, event) ELSE @]]
    IN  /\ tasks' = tasks \ {t}
        /\ IF t.user_id \notin DOMAIN clients
           THEN \* raise Exception("Client not initialized")
                /\ finish("message_error")
                /\ last_op' = [op |-> "_send_message_async"]
                /\ UNCHANGED <<queue, clock, fail_cycles>>
           ELSE /\ \E ok \in SendResults(clients[t.user_id].protocol_status) :
                      send_message(t.user_id, t.priority, ok)
                /\ finish("message_delivered")
        /\ UNCHANGED <<has_loop, clients, user_sessions, session_users>>

\* every MultiProtocolClient opens OfflineQueue() with the default db_path
offline_queue(user_id) == queue

\* GET /api/communication/queue/<user_id>
get_queue_status(user_id) ==
    /\ last_op' = [op |-> "get_queue_status", user_id |-> user_id,
                   queue_size |-> IF user_id \in DOMAIN clients
                                  THEN get_queue_size(offline_queue(user_id))
                                  ELSE 0]
    /\ UNCHANGED <<has_loop, clients, user_sessions, session_users, queue,
                   clock, tasks, reqs, fail_cycles>>

-----------------------------------------------------------------------------
(* SpecServer *)

\* CommunicationManager.__init__
InitManager ==
    /\ has_loop \in BOOLEAN
    /\ clients = EmptyMap
    /\ user_sessions = EmptyMap
    /\ session_users = EmptyMap
    /\ tasks = {}
    /\ InitQueue(0)
    /\ InitHistory

InitServer ==
    /\ InitManager
    /\ InitIntegration
    /\ InitNoRetry
    /\ InitNoAgent
    /\ InitNoFlow
    /\ InitNoOnboarding
    /\ InitNoApp

\* who joins from where: two users from one session, one user from two
JoinInputs == {<<"s1", "u1">>, <<"s1", "u2">>, <<"s2", "u1">>, <<"s2", None>>}

JoinUser ==
    \E j \in JoinInputs : handle_join_user(j[1], j[2]) /\ UNCHANGED notComm

Disconnect ==
    \E sid \in Sessions : handle_disconnect(sid) /\ UNCHANGED notComm

SendMessageEvent ==
    \E sid \in Sessions, content \in {"", "text"}, priority \in PriorityInputs :
        handle_send_message(sid, content, priority) /\ UNCHANGED notComm

Worker == \E t \in tasks : _send_message_async(t) /\ UNCHANGED notComm

QueueStatus == \E u \in Users : get_queue_status(u) /\ UNCHANGED notComm

\* _initialize_protocols_async closes the event loop it ran initialize_webrtc
\* in, so the peer connection's state callbacks never run in the server; the
\* MQTT callbacks come from the SDK's own thread
MqttStatusChange == StatusChangeOf({MQTT})

NextServer ==
    \/ JoinUser \/ Disconnect \/ SendMessageEvent \/ Worker \/ MqttStatusChange

SpecServer == InitServer /\ [][NextServer]_vars

-----------------------------------------------------------------------------
(* SpecShared: the clients of several users in one process, every one of them
   on the queue file of the default db_path *)

InitShared == InitServer /\ has_loop

NextShared ==
    \/ JoinUser \/ StatusChange \/ ClientSend \/ RetryCycle \/ QueueStatus

SpecShared == InitShared /\ [][NextShared]_vars

-----------------------------------------------------------------------------
(* IntegrationAgent (agents/integration_agent.py) *)

\* members of enum IntegrationStatus; their .value is the stored string
ACTIVE == "IntegrationStatus.ACTIVE"
INACTIVE == "IntegrationStatus.INACTIVE"
ERROR == "IntegrationStatus.ERROR"
PENDING == "IntegrationStatus.PENDING"
SUSPENDED == "IntegrationStatus.SUSPENDED"

IntegrationStatus == {ACTIVE, INACTIVE, ERROR, PENDING, SUSPENDED}

StatusValue(status) ==
    CASE status = ACTIVE -> "active"
      [] status = INACTIVE -> "inactive"
      [] status = ERROR -> "error"
      [] status = PENDING -> "pending"
      [] status = SUSPENDED -> "suspended"

\* members of enum IntegrationType that have a test endpoint of their own, and
\* one that has not
GITHUB == "IntegrationType.GITHUB"
SLACK == "IntegrationType.SLACK"
JIRA == "IntegrationType.JIRA"
TRELLO == "IntegrationType.TRELLO"
CUSTOM_API == "IntegrationType.CUSTOM_API"

IntegrationType == {GITHUB, SLACK, JIRA, TRELLO, CUSTOM_API}

TypeValue(type) ==
    CASE type = GITHUB -> "github"
      [] type = SLACK -> "slack"
      [] type = JIRA -> "jira"
      [] type = TRELLO -> "trello"
      [] type = CUSTOM_API -> "custom_api"

\* the types register_integration is called with
RegisterTypes == {GITHUB, CUSTOM_API}

\* what table.put_item does: "ok" stores; "ClientError" stores nothing and
\* raises; "TypeError" is boto3's synchronous Table, which stores and returns
\* a dict that `await` then rejects
PutOutcomes == {"ok", "ClientError", "TypeError"}

\* what table.get_item does
GetOutcomes == {"ok", "ClientError"}

\* the value of a variable that holds no config
NoConfig == [integration_id |-> 0, type |-> None, status |-> None, error_count |-> 0]

\* an Optional[datetime]: None, or the time t hours after the start
NoTime == [type |-> "NoneType"]

datetime(t) == [type |-> "datetime", hours |-> t]

\* datetime.isoformat: the string form of a time, no longer a datetime
isoformat(d) == [type |-> "str", iso |-> d.hours]

\* IntegrationConfig(...) as register_integration builds it
IntegrationConfig(integration_id, type) ==
    [integration_id |-> integration_id, type |-> type, status |-> PENDING,
     last_sync_at |-> NoTime, error_count |-> 0, last_error |-> None]

\* config.type.value and config.status.value exist only on enum members
HasEnumFields(config) ==
    config.type \in IntegrationType /\ config.status \in IntegrationStatus

\* IntegrationAgent._store_integration_config: only ClientError is caught, and
\* re-raised; any other exception propagates as it is
_store_integration_config(table, config, put) ==
    IF ~HasEnumFields(config) THEN [table |-> table, raised |-> "AttributeError"]
    ELSE IF put = "ClientError" THEN [table |-> table, raised |-> "ClientError"]
    ELSE [table |-> MapPut(table, config.integration_id,
                           [config EXCEPT !.type = TypeValue(@),
                                          !.status = StatusValue(@),
                                          !.last_sync_at =
                                              IF @ = NoTime THEN NoTime
                                              ELSE isoformat(@)]),
          raised |-> IF put = "ok" THEN None ELSE "TypeError"]

\* _get_integration_config caching the miss as well
_get_integration_config_caching_miss(cache, table, integration_id, get) ==
    IF integration_id \in DOMAIN cache /\ cache[integration_id] # NoConfig
    THEN [found |-> TRUE, config |-> cache[integration_id], cache |-> cache]
    ELSE IF get = "ok" /\ integration_id \in DOMAIN table
    THEN [found |-> TRUE, config |-> table[integration_id],
          cache |-> MapPut(cache, integration_id, table[integration_id])]
    ELSE [found |-> FALSE, config |-> NoConfig,
          cache |-> MapPut(cache, integration_id, NoConfig)]

\* IntegrationAgent._get_integration_config: cache first, then the table;
\* IntegrationConfig(**item) keeps the item's strings as they are
_get_integration_config(cache, table, integration_id, get) ==
    IF integration_id \in DOMAIN cache
    THEN [found |-> TRUE, config |-> cache[integration_id], cache |-> cache]
    ELSE IF get = "ok" /\ integration_id \in DOMAIN table
    THEN [found |-> TRUE, config |-> table[integration_id],
          cache |-> MapPut(cache, integration_id, table[integration_id])]
    ELSE [found |-> FALSE, config |-> NoConfig, cache |-> cache]

\* IntegrationAgent._update_integration_health: the cached object is changed in
\* place, then stored; every exception is logged and swallowed
\* _update_integration_health without "max(0, ...)"
_update_integration_health_unclamped(cache, table, integration_id, success, put) ==
    IF integration_id \notin DOMAIN cache THEN [cache |-> cache, table |-> table]
    ELSE LET integration ==
                 [cache[integration_id] EXCEPT
                     !.error_count = IF success THEN @ - 1 ELSE @ + 1,
                     !.last_error = IF success THEN None ELSE @]
         IN  [cache |-> MapPut(cache, integration_id, integration),
              table |-> _store_integration_config(table, integration, put).table]

\* _update_integration_health marking an integration whose call failed
_update_integration_health_marking(cache, table, integration_id, success, put) ==
    IF integration_id \notin DOMAIN cache THEN [cache |-> cache, table |-> table]
    ELSE LET integration ==
                 [cache[integration_id] EXCEPT
                     !.error_count = IF success THEN (IF @ > 0 THEN @ - 1 ELSE 0)
                                     ELSE @ + 1,
                     !.last_error = IF success THEN None ELSE @,
                     !.status = IF success THEN @ ELSE ERROR]
         IN  [cache |-> MapPut(cache, integration_id, integration),
              table |-> _store_integration_config(table, integration, put).table]

\* IntegrationAgent._update_integration_health; what the store raises is
\* logged and dropped
_update_integration_health(cache, table, integration_id, success, put) ==
    IF integration_id \notin DOMAIN cache THEN [cache |-> cache, table |-> table]
    ELSE LET integration ==
                 [cache[integration_id] EXCEPT
                     !.error_count = IF success THEN (IF @ > 0 THEN @ - 1 ELSE 0)
                                     ELSE @ + 1,
                     !.last_error = IF success THEN None ELSE @]
         IN  [cache |-> MapPut(cache, integration_id, integration),
              table |-> _store_integration_config(table, integration, put).table]

\* execute_api_call: "fails with NotFound if unknown"
MissingIntegration(found) == ~found

\* execute_api_call going on whatever the status is
IsActive_any(status) == TRUE

\* execute_api_call: "fails with InvalidState if status is not `active`"
IsActive(status) == status = ACTIVE

\* 'Integration <id> not found' / 'Integration <id> is not active'
NotFound == "ValueError: not found"
NotActive == "ValueError: not active"

\* IntegrationAgent.execute_api_call after _ensure_session: resolve, NotFound,
\* InvalidState, the request with its retries, the health counters
execute_api_call(cache, table, requests, integration_id, get, endpoint_ok, retries, put) ==
    LET r == _get_integration_config(cache, table, integration_id, get) IN
    IF MissingIntegration(r.found)
    THEN [raised |-> NotFound, success |-> FALSE, cache |-> r.cache,
          table |-> table, requests |-> requests, status |-> None]
    ELSE IF ~IsActive(r.config.status)
    THEN [raised |-> NotActive, success |-> FALSE, cache |-> r.cache,
          table |-> table, requests |-> requests, status |-> r.config.status]
    ELSE LET h == _update_integration_health(r.cache, table, integration_id,
                                             endpoint_ok, put)
         IN  IF endpoint_ok
             THEN [raised |-> None, success |-> TRUE, cache |-> h.cache,
                   table |-> h.table, requests |-> requests + 1,
                   status |-> r.config.status]
             ELSE [raised |-> "ClientConnectionError", success |-> FALSE,
                   cache |-> h.cache, table |-> h.table,
                   requests |-> requests + retries + 1,
                   status |-> r.config.status]

\* IntegrationAgent._get_test_endpoint
_get_test_endpoint(type) ==
    CASE type = GITHUB -> "/user"
      [] type = SLACK -> "/auth.test"
      [] type = JIRA -> "/rest/api/2/myself"
      [] type = TRELLO -> "/members/me"
      [] OTHER -> "/"

\* _test_integration letting the exception of the probe through
ProbeRaises_uncaught(raised) == raised # None

\* _test_integration: "except Exception ... return False"
ProbeRaises(raised) == FALSE

\* IntegrationAgent._test_integration: one call with retries=1
_test_integration(cache, table, requests, config, get, endpoint_ok, put) ==
    LET e == execute_api_call(cache, table, requests, config.integration_id,
                              get, endpoint_ok, 1, put)
    IN  [success |-> e.raised = None /\ e.success,
         raised |-> IF ProbeRaises(e.raised) THEN e.raised ELSE None,
         probe |-> e.raised,
         endpoint |-> _get_test_endpoint(config.type),
         cache |-> e.cache, table |-> e.table, requests |-> e.requests]

\* IntegrationAgent.register_integration: any exception is logged and re-raised
register_integration(type, put, get, endpoint_ok, put2) ==
    \E config \in {IntegrationConfig(uuids + 1, type)} :
    \E s \in {_store_integration_config(integrations_table, config, put)} :
        /\ uuids' = uuids + 1
        /\ IF s.raised # None
           THEN /\ integrations_table' = s.table
                /\ last_call' = [op |-> "register_integration",
                                 integration_id |-> config.integration_id,
                                 endpoint_ok |-> endpoint_ok, probe |-> None,
                                 raised |-> s.raised, returned |-> NoConfig]
                /\ UNCHANGED <<session, _integration_cache, http_requests>>
           ELSE \E t \in {_test_integration(_integration_cache, s.table,
                                            http_requests, config, get,
                                            endpoint_ok, put2)} :
                \E final \in {IF t.success THEN [config EXCEPT !.status = ACTIVE]
                              ELSE config} :
                \E s2 \in {IF t.success
                           THEN _store_integration_config(t.table, final, put2)
                           ELSE [table |-> t.table, raised |-> None]} :
                \E raised \in {IF t.raised # None THEN t.raised ELSE s2.raised} :
                    /\ session' = TRUE
                    /\ http_requests' = t.requests
                    /\ integrations_table' = IF t.raised # None THEN t.table ELSE s2.table
                    /\ _integration_cache' =
                          IF raised # None THEN t.cache
                          ELSE MapPut(t.cache, config.integration_id, final)
                    /\ last_call' = [op |-> "register_integration",
                                     integration_id |-> config.integration_id,
                                     endpoint_ok |-> endpoint_ok,
                                     probe |-> IF t.probe = None THEN "ok" ELSE t.probe,
                                     raised |-> raised,
                                     returned |-> IF raised # None THEN NoConfig
                                                  ELSE final]

-----------------------------------------------------------------------------
(* SpecInteg *)

\* 0 is an id no integration has
IntegrationIds == 0..MaxIntegrations

InitInteg == InitServer /\ ~has_loop

\* a new process: IntegrationAgent.__init__ over the same table
Construct ==
    /\ session' = FALSE
    /\ _integration_cache' = EmptyMap
    /\ last_call' = [op |-> "__init__"]
    /\ UNCHANGED <<integrations_table, http_requests, uuids>>
    /\ UNCHANGED notInteg

Register ==
    \E type \in RegisterTypes, put \in PutOutcomes, get \in GetOutcomes,
       endpoint_ok \in BOOLEAN, put2 \in PutOutcomes :
        /\ uuids < MaxIntegrations
        /\ http_requests < MaxHttp
        /\ register_integration(type, put, get, endpoint_ok, put2)
        /\ UNCHANGED notInteg

\* await agent.execute_api_call(integration_id, ...) with the default retries=3
Execute ==
    \E integration_id \in IntegrationIds, get \in GetOutcomes,
       endpoint_ok \in BOOLEAN, put \in PutOutcomes :
    \E e \in {execute_api_call(_integration_cache, integrations_table,
                               http_requests, integration_id, get,
                               endpoint_ok, 3, put)} :
        /\ http_requests < MaxHttp
        /\ session' = TRUE
        /\ _integration_cache' = e.cache
        /\ integrations_table' = e.table
        /\ http_requests' = e.requests
        /\ last_call' = [op |-> "execute_api_call",
                         integration_id |-> integration_id,
                         in_cache |-> integration_id \in DOMAIN _integration_cache,
                         in_store |-> integration_id \in DOMAIN integrations_table,
                         status |-> e.status,
                         raised |-> e.raised, success |-> e.success]
        /\ UNCHANGED uuids
        /\ UNCHANGED notInteg

NextInteg == Construct \/ Register \/ Execute

SpecInteg == InitInteg /\ [][NextInteg]_vars

-----------------------------------------------------------------------------
(* IntegrationAgent.sync_data *)

\* an endpoint config of sync_config['endpoints']: 'endpoint' is None when the
\* key is missing; ok and records say how the endpoint answers a request
EndpointConfig(endpoint, ok, records) ==
    [endpoint |-> endpoint, ok |-> ok, records |-> records]

\* sync_data before the loop: the local results
NewSyncResults ==
    [endpoints_synced |-> <<>>, total_records |-> 0, errors |-> <<>>,
     success |-> None]

\* sync_data, one pass of "for endpoint_config in endpoints"; st carries the
\* cache, the table, the request count, results and the calls made so far
SyncEndpoint(st, integration_id, endpoint_config, get, put) ==
    IF endpoint_config.endpoint = None
    THEN [st EXCEPT !.results.errors =
              Append(@, [endpoint |-> "unknown", error |-> "KeyError"])]
    ELSE LET e == execute_api_call(st.cache, st.table, st.requests,
                                   integration_id, get, endpoint_config.ok,
                                   3, put)
             called == [st EXCEPT !.cache = e.cache, !.table = e.table,
                                  !.requests = e.requests,
                                  !.calls = Append(@, endpoint_config.endpoint)]
         IN  IF e.raised # None
             THEN [called EXCEPT !.results.errors =
                      Append(@, [endpoint |-> endpoint_config.endpoint,
                                 error |-> e.raised])]
             ELSE IF e.success
             THEN [called EXCEPT
                      !.results.endpoints_synced =
                          Append(@, [endpoint |-> endpoint_config.endpoint,
                                     records |-> endpoint_config.records,
                                     status |-> "success"]),
                      !.results.total_records = @ + endpoint_config.records]
             ELSE [called EXCEPT !.results.errors =
                      Append(@, [endpoint |-> endpoint_config.endpoint,
                                 error |-> "response.error"])]

RECURSIVE SyncLoop(_, _, _, _, _)
SyncLoop(st, integration_id, endpoints, get, put) ==
    IF endpoints = <<>> THEN st
    ELSE SyncLoop(SyncEndpoint(st, integration_id, Head(endpoints), get, put),
                  integration_id, Tail(endpoints), get, put)

\* sync_data writing last_sync_at only when no endpoint failed
SyncStamp_on_success(results, last_sync_at, t) ==
    IF results.errors = <<>> THEN datetime(t) ELSE last_sync_at

\* sync_data: "integration.last_sync_at = datetime.now()"
SyncStamp(results, last_sync_at, t) == datetime(t)

\* IntegrationAgent.sync_data at time t. integration is the object the cache
\* holds, so the assignment of last_sync_at shows in the cache whether or not
\* the store that follows raises
sync_data(cache, table, requests, integration_id, endpoints, get, put, t) ==
    LET r == _get_integration_config(cache, table, integration_id, get) IN
    IF ~r.found
    THEN [raised |-> NotFound, results |-> NewSyncResults, cache |-> r.cache,
          table |-> table, requests |-> requests, calls |-> <<>>]
    ELSE LET st == SyncLoop([cache |-> r.cache, table |-> table,
                             requests |-> requests, calls |-> <<>>,
                             results |-> NewSyncResults],
                            integration_id, endpoints, get, put)
             results == [st.results EXCEPT !.success = (st.results.errors = <<>>)]
             integration ==
                 [st.cache[integration_id] EXCEPT
                     !.last_sync_at = SyncStamp(results, @, t)]
             stored == _store_integration_config(st.table, integration, put)
         IN  [raised |-> stored.raised, results |-> results,
              cache |-> MapPut(st.cache, integration_id, integration),
              table |-> stored.table, requests |-> st.requests,
              calls |-> st.calls]

-----------------------------------------------------------------------------
(* SpecWorkflow: IntegrationAgent.orchestrate_workflow, one step of the
   workflow a step, on an agent whose cache holds one integration *)

\* the fixture sample_integration_config: a config with enum members in type
\* and status, put into _integration_cache as it is
sample_integration_config(integration_id, status, error_count, last_sync_at) ==
    [integration_id |-> integration_id, type |-> GITHUB, status |-> status,
     last_sync_at |-> last_sync_at, error_count |-> error_count,
     last_error |-> None]

\* a step config; its 'config' addresses integration 0, endpoint_ok says how
\* the endpoint it names answers
StepTypes == {"api_call", "sync", "transform"}

StepConfig(name, type, endpoint_ok, continue_on_failure) ==
    [name |-> name, type |-> type, endpoint_ok |-> endpoint_ok,
     continue_on_failure |-> continue_on_failure]

StepKinds ==
    {k \in StepTypes \X BOOLEAN \X BOOLEAN : k[1] = "transform" => k[2]}

\* the lists of steps, each step named by its place in the list
WorkflowSteps ==
    UNION {{[i \in 1..n |-> StepConfig(i, f[i][1], f[i][2], f[i][3])] :
                f \in [1..n -> StepKinds]} : n \in 0..MaxSteps}

\* _execute_workflow_step, step_type == 'api_call': the step's result from what
\* execute_api_call returned or raised
api_call_step(step_config, e) ==
    [step_result |-> [name |-> step_config.name,
                      type |-> step_config.type,
                      success |-> e.raised = None /\ e.success,
                      error |-> e.raised],
     cache |-> e.cache, table |-> e.table, requests |-> e.requests]

\* _execute_workflow_step, step_type == 'sync': the step's result from what
\* sync_data returned or raised
sync_step(step_config, y) ==
    [step_result |-> [name |-> step_config.name,
                      type |-> step_config.type,
                      success |-> y.raised = None /\ y.results.success,
                      error |-> y.raised],
     cache |-> y.cache, table |-> y.table, requests |-> y.requests]

\* IntegrationAgent._execute_workflow_step
_execute_workflow_step(cache, table, requests, step_config, get, put, t) ==
    IF step_config.type = "api_call"
    THEN api_call_step(step_config,
                       execute_api_call(cache, table, requests, 0, get,
                                        step_config.endpoint_ok, 3, put))
    ELSE IF step_config.type = "sync"
    THEN sync_step(step_config,
                   sync_data(cache, table, requests, 0,
                             <<EndpointConfig("/items",
                                              step_config.endpoint_ok, 1)>>,
                             get, put, t))
    ELSE [step_result |-> [name |-> step_config.name,
                           type |-> step_config.type, success |-> FALSE,
                           error |-> "Unknown step type"],
          cache |-> cache, table |-> table, requests |-> requests]

\* orchestrate_workflow stopping at a failed step whatever its flag
StopsAfter_any_failure(step_config, step_result) == ~step_result.success

\* orchestrate_workflow: "if not step_config.get('continue_on_failure',
\* False): break", reached only for a failed step
StopsAfter(step_config, step_result) ==
    ~step_result.success /\ ~step_config.continue_on_failure

InitWorkflow ==
    /\ InitManager /\ ~has_loop
    /\ session = TRUE
    /\ \E status \in {ACTIVE, PENDING} :
           _integration_cache =
               MapPut(EmptyMap, 0, sample_integration_config(0, status, 0, NoTime))
    /\ integrations_table = EmptyMap
    /\ http_requests = 0
    /\ uuids = 0
    /\ last_call = [op |-> "orchestrate_workflow", executed |-> <<>>]
    /\ InitNoRetry
    /\ InitNoAgent
    /\ InitNoOnboarding
    /\ InitNoApp
    /\ wf_steps \in WorkflowSteps
    /\ wf_pos = 0
    /\ wf_results = [steps |-> <<>>, success |-> TRUE, errors |-> <<>>]
    /\ wf_state = "running"

\* one pass of "for step_config in steps"
WorkflowStep ==
    /\ wf_state = "running"
    /\ wf_pos < Len(wf_steps)
    /\ \E get \in GetOutcomes, put \in PutOutcomes :
       \E x \in {_execute_workflow_step(_integration_cache, integrations_table,
                                        http_requests, wf_steps[wf_pos + 1],
                                        get, put, time_now)} :
           /\ _integration_cache' = x.cache
           /\ integrations_table' = x.table
           /\ http_requests' = x.requests
           /\ wf_results' =
                  [steps |-> Append(wf_results.steps, x.step_result),
                   success |-> wf_results.success /\ x.step_result.success,
                   errors |-> IF x.step_result.success THEN wf_results.errors
                              ELSE Append(wf_results.errors,
                                          [step |-> x.step_result.name,
                                           error |-> x.step_result.error])]
           /\ wf_pos' = wf_pos + 1
           /\ wf_state' = IF StopsAfter(wf_steps[wf_pos + 1], x.step_result)
                          THEN "returned" ELSE "running"
           /\ last_call' = [last_call EXCEPT
                               !.executed = Append(@, wf_steps[wf_pos + 1].name)]
    /\ UNCHANGED <<session, uuids, wf_steps>>
    /\ UNCHANGED <<commVars, retryVars, agentVars, onbVars, appVars>>

\* the loop has gone through the list: "return results"
WorkflowReturn ==
    /\ wf_state = "running"
    /\ wf_pos = Len(wf_steps)
    /\ wf_state' = "returned"
    /\ UNCHANGED <<wf_steps, wf_pos, wf_results>>
    /\ UNCHANGED <<commVars, integVars, retryVars, agentVars, onbVars, appVars>>

NextWorkflow == WorkflowStep \/ WorkflowReturn

SpecWorkflow == InitWorkflow /\ [][NextWorkflow]_vars

-----------------------------------------------------------------------------
(* SpecSync: one call of IntegrationAgent.sync_data on an agent that has
   integration 0 in its cache and integration 1 in the store only *)

\* endpoints that answer with a list of two records, that cannot be reached,
\* and a config without the key 'endpoint'
EndpointKinds ==
    {EndpointConfig("/users", TRUE, 2), EndpointConfig("/repos", FALSE, 0),
     EndpointConfig("/teams", TRUE, 1), EndpointConfig(None, TRUE, 0)}

EndpointLists ==
    UNION {[1..n -> EndpointKinds] : n \in 0..MaxEndpoints}

\* integration 2 is neither cached nor stored
SyncIds == {0, 1, 2}

InitSync ==
    /\ InitManager /\ ~has_loop
    /\ session = TRUE
    /\ \E status \in {ACTIVE, SUSPENDED}, last_sync_at \in {NoTime, datetime(0)} :
           _integration_cache =
               MapPut(EmptyMap, 0,
                      sample_integration_config(0, status, 1, last_sync_at))
    /\ integrations_table =
           _store_integration_config(EmptyMap, IntegrationConfig(1, SLACK),
                                     "ok").table
    /\ http_requests = 0
    /\ uuids = 1
    /\ last_call = NoOp
    /\ InitNoRetry
    /\ time_now = 24
    /\ webhook_handlers = EmptyMap
    /\ InitNoFlow
    /\ InitNoOnboarding
    /\ InitNoApp

SyncData ==
    /\ last_call.op = "none"
    /\ \E integration_id \in SyncIds, endpoints \in EndpointLists,
          get \in GetOutcomes, put \in PutOutcomes :
       \E y \in {sync_data(_integration_cache, integrations_table, http_requests,
                           integration_id, endpoints, get, put, time_now)} :
        /\ _integration_cache' = y.cache
        /\ integrations_table' = y.table
        /\ http_requests' = y.requests
        /\ last_call' = [op |-> "sync_data", integration_id |-> integration_id,
                         endpoints |-> endpoints, raised |-> y.raised,
                         results |-> y.results, calls |-> y.calls]
        /\ UNCHANGED <<session, uuids>>
        /\ UNCHANGED <<commVars, unitVars>>

NextSync == SyncData

SpecSync == InitSync /\ [][NextSync]_vars

-----------------------------------------------------------------------------
(* SpecWebhook: register_webhook_handler and handle_webhook_event. Strings
   are sequences of characters *)

WebhookIds == {<<"a">>, <<"a", ":", "b">>}

EventTypes == {<<"c">>, <<"b", ":", "c">>}

\* async handlers: two that return a result, one that raises
Handlers == {"handler_1", "handler_2", "handler_raising"}

DefaultHandler == "_default_webhook_handler"

\* f"{integration_id}:{event_type}"
handler_key(integration_id, event_type) ==
    integration_id \o <<":">> \o event_type

\* register_webhook_handler leaving an earlier handler of the key in place
register_webhook_handler_keep_first(handlers, integration_id, event_type, handler) ==
    IF handler_key(integration_id, event_type) \in DOMAIN handlers
    THEN handlers
    ELSE MapPut(handlers, handler_key(integration_id, event_type), handler)

\* IntegrationAgent.register_webhook_handler
register_webhook_handler(handlers, integration_id, event_type, handler) ==
    MapPut(handlers, handler_key(integration_id, event_type), handler)

\* "await handler(event)" and IntegrationAgent._default_webhook_handler
RunHandler(handler, event_id) ==
    IF handler = "handler_raising"
    THEN [raised |-> "RuntimeError: handler failed", result |-> None]
    ELSE IF handler = DefaultHandler
    THEN [raised |-> None,
          result |-> [status |-> "acknowledged", event_id |-> event_id]]
    ELSE [raised |-> None,
          result |-> [status |-> handler, event_id |-> event_id]]

\* IntegrationAgent.handle_webhook_event; _store_webhook_event does nothing
handle_webhook_event(handlers, event_id, integration_id, event_type) ==
    LET key == handler_key(integration_id, event_type)
        handler == IF key \in DOMAIN handlers THEN handlers[key]
                   ELSE DefaultHandler
        run == RunHandler(handler, event_id)
    IN  IF run.raised = None
        THEN [raised |-> None, invoked |-> handler,
              returned |-> [event_id |-> event_id, processed |-> TRUE,
                            result |-> run.result, error |-> None]]
        ELSE [raised |-> None, invoked |-> handler,
              returned |-> [event_id |-> event_id, processed |-> FALSE,
                            result |-> None, error |-> run.raised]]

InitWebhook ==
    /\ InitManager /\ ~has_loop
    /\ session = FALSE
    /\ _integration_cache = EmptyMap
    /\ integrations_table = EmptyMap
    /\ http_requests = 0
    /\ uuids = 0
    /\ last_call = [op |-> "none", registrations |-> <<>>]
    /\ InitNoRetry
    /\ InitNoAgent
    /\ InitNoFlow
    /\ InitNoOnboarding
    /\ InitNoApp

RegisterHandler ==
    \E integration_id \in WebhookIds, event_type \in EventTypes,
       handler \in Handlers :
        /\ Len(last_call.registrations) < MaxHandlers
        /\ webhook_handlers' =
               register_webhook_handler(webhook_handlers, integration_id,
                                        event_type, handler)
        /\ last_call' =
               [op |-> "register_webhook_handler",
                registrations |->
                    Append(last_call.registrations,
                           [integration_id |-> integration_id,
                            event_type |-> event_type, handler |-> handler])]
        /\ UNCHANGED <<session, _integration_cache, integrations_table,
                       http_requests, uuids, time_now>>
        /\ UNCHANGED <<commVars, retryVars, flowVars, onbVars, appVars>>

HandleEvent ==
    \E integration_id \in WebhookIds, event_type \in EventTypes :
    \E w \in {handle_webhook_event(webhook_handlers, uuids + 1,
                                   integration_id, event_type)} :
        /\ uuids < MaxEvents
        /\ uuids' = uuids + 1
        /\ last_call' =
               [op |-> "handle_webhook_event",
                registrations |-> last_call.registrations,
                integration_id |-> integration_id, event_type |-> event_type,
                raised |-> w.raised, invoked |-> w.invoked,
                returned |-> w.returned]
        /\ UNCHANGED <<session, _integration_cache, integrations_table,
                       http_requests, agentVars>>
        /\ UNCHANGED <<commVars, retryVars, flowVars, onbVars, appVars>>

NextWebhook == RegisterHandler \/ HandleEvent

SpecWebhook == InitWebhook /\ [][NextWebhook]_vars

-----------------------------------------------------------------------------
(* SpecCounters: calls of IntegrationAgent._update_integration_health, as
   execute_api_call makes one after every call, on an agent that has
   integration 0 in its cache as the tests put it there and integration 1 as
   _load_integrations read it from the store *)

\* IntegrationAgent._load_integrations for one stored item
LoadedConfig(integration_id, type, error_count) ==
    _store_integration_config(
        EmptyMap,
        [IntegrationConfig(integration_id, type) EXCEPT
            !.error_count = error_count],
        "ok").table[integration_id]

InitCounters ==
    /\ InitManager /\ ~has_loop
    /\ session = TRUE
    /\ \E error_count \in {0, 5}, error \in {None, "timeout"} :
           _integration_cache =
               MapPut(MapPut(EmptyMap, 0,
                             [sample_integration_config(0, ACTIVE, error_count,
                                                        NoTime)
                                 EXCEPT !.last_error = error]),
                      1, LoadedConfig(1, SLACK, 1))
    /\ integrations_table = MapPut(EmptyMap, 1, LoadedConfig(1, SLACK, 1))
    /\ http_requests = 0
    /\ uuids = 1
    /\ last_call = NoOp
    /\ InitNoRetry
    /\ InitNoAgent
    /\ InitNoFlow
    /\ InitNoOnboarding
    /\ InitNoApp

\* integration 2 is not in the cache
UpdateHealth ==
    \E integration_id \in {0, 1, 2}, success \in BOOLEAN, put \in PutOutcomes :
    \E h \in {_update_integration_health(_integration_cache, integrations_table,
                                         integration_id, success, put)} :
        /\ integration_id \in DOMAIN _integration_cache =>
               (success \/ _integration_cache[integration_id].error_count < MaxErrors)
        /\ _integration_cache' = h.cache
        /\ integrations_table' = h.table
        /\ last_call' = [op |-> "_update_integration_health",
                         integration_id |-> integration_id,
                         success |-> success]
        /\ UNCHANGED <<session, http_requests, uuids>>
        /\ UNCHANGED <<commVars, unitVars>>

NextCounters == UpdateHealth

SpecCounters == InitCounters /\ [][NextCounters]_vars

-----------------------------------------------------------------------------
(* SpecHealth: _check_integration_health and monitor_integration_health on
   the integrations an agent has in its cache *)

\* a double that is k tenths, as near as a double gets (ulp = 0), or a
\* neighbour of that double (ulp = 1 above, -1 below)
Float(tenths) == [tenths |-> tenths, ulp |-> 0]

\* len(issues) * 0.2 for up to three issues: 0.0, 0.2, 0.4 and
\* 0.6000000000000001
TimesFifth(n) == [tenths |-> 2 * n, ulp |-> IF n = 3 THEN 1 ELSE 0]

\* 1.0 - x for these x: 0.8, 0.6 and 0.3999999999999999
FloatSub(x, y) == [tenths |-> x.tenths - y.tenths, ulp |-> x.ulp - y.ulp]

FloatLess(x, y) ==
    \/ x.tenths < y.tenths
    \/ x.tenths = y.tenths /\ x.ulp < y.ulp

\* max(0.0, min(1.0, score))
Clamp(score) ==
    IF FloatLess(score, Float(0)) THEN Float(0)
    ELSE IF FloatLess(Float(10), score) THEN Float(10)
    ELSE score

\* "if config.error_count > 10"
HighErrorRate(error_count) == error_count > 10

\* "if config.last_sync_at:" and "hours_since_sync > 24"
NoRecentSync(last_sync_at, t) ==
    last_sync_at # NoTime /\ t - last_sync_at.hours > 24

\* IntegrationAgent._check_integration_health at time t. A config read from
\* the store has strings where the code expects a datetime and an enum member
_check_integration_health(config, t) ==
    IF config.last_sync_at.type = "str"
    THEN [raised |-> "TypeError", score |-> Float(10), issues |-> <<>>]
    ELSE IF config.status \notin IntegrationStatus
    THEN [raised |-> "AttributeError", score |-> Float(10), issues |-> <<>>]
    ELSE LET issues ==
                 (IF HighErrorRate(config.error_count)
                  THEN <<<<"High error rate">>>> ELSE <<>>)
                 \o (IF NoRecentSync(config.last_sync_at, t)
                     THEN <<<<"No recent sync">>>> ELSE <<>>)
                 \o (IF config.status # ACTIVE
                     THEN <<<<"Integration status: ", StatusValue(config.status)>>>>
                     ELSE <<>>)
             score == IF issues # <<>>
                      THEN FloatSub(Float(10), TimesFifth(Len(issues)))
                      ELSE Float(10)
         IN  [raised |-> None, score |-> Clamp(score), issues |-> issues]

\* the ids of the cache in the order the dict yields them
RECURSIVE CacheOrder(_)
CacheOrder(ids) ==
    IF ids = {} THEN <<>>
    ELSE LET i == CHOOSE x \in ids : \A y \in ids : x <= y
         IN  <<i>> \o CacheOrder(ids \ {i})

\* IntegrationAgent.monitor_integration_health at time t
monitor_integration_health(cache, t) ==
    LET health == [i \in DOMAIN cache |-> _check_integration_health(cache[i], t)]
        listed == SelectSeq(CacheOrder(DOMAIN cache),
                            LAMBDA i : FloatLess(health[i].score, Float(8)))
    IN  IF \E i \in DOMAIN cache : health[i].raised # None \/ ~HasEnumFields(cache[i])
        THEN [raised |-> "AttributeError", integrations |-> EmptyMap,
              overall_health |-> None, issues |-> <<>>]
        ELSE [raised |-> None,
              integrations |->
                  [i \in DOMAIN cache |->
                      [status |-> StatusValue(cache[i].status),
                       error_count |-> cache[i].error_count,
                       health_score |-> health[i].score,
                       issues |-> health[i].issues]],
              overall_health |->
                  IF \E i \in DOMAIN cache : FloatLess(health[i].score, Float(5))
                  THEN "unhealthy"
                  ELSE IF listed # <<>> THEN "degraded"
                  ELSE "healthy",
              issues |-> [k \in 1..Len(listed) |->
                             [integration_id |-> listed[k],
                              issues |-> health[listed[k]].issues]]]

\* the configs a cache entry is drawn from: typed ones as the tests build
\* them, and one as _load_integrations reads it
HealthConfigs(integration_id) ==
    {sample_integration_config(integration_id, status, error_count, last_sync_at) :
         status \in {ACTIVE, ERROR}, error_count \in {0, 10, 11, 15},
         last_sync_at \in {NoTime, datetime(0)}}
    \cup {LoadedConfig(integration_id, SLACK, 0)}

InitHealth ==
    /\ InitManager /\ ~has_loop
    /\ session = TRUE
    /\ \/ _integration_cache = EmptyMap
       \/ \E c \in HealthConfigs(0) : _integration_cache = MapPut(EmptyMap, 0, c)
       \/ \E c \in HealthConfigs(0), d \in HealthConfigs(1) :
              _integration_cache = MapPut(MapPut(EmptyMap, 0, c), 1, d)
    /\ integrations_table = EmptyMap
    /\ http_requests = 0
    /\ uuids = 0
    /\ last_call = NoOp
    /\ InitNoRetry
    /\ InitNoAgent
    /\ InitNoFlow
    /\ InitNoOnboarding
    /\ InitNoApp

\* a day passes
Tick ==
    /\ time_now + 24 <= MaxHours
    /\ time_now' = time_now + 24
    /\ last_call' = NoOp
    /\ UNCHANGED <<session, _integration_cache, integrations_table,
                   http_requests, uuids, webhook_handlers>>
    /\ UNCHANGED <<commVars, retryVars, flowVars, onbVars, appVars>>

CheckHealth ==
    \E i \in DOMAIN _integration_cache :
        /\ last_call' =
               [op |-> "_check_integration_health", config |-> _integration_cache[i],
                health |-> _check_integration_health(_integration_cache[i], time_now)]
        /\ UNCHANGED <<session, _integration_cache, integrations_table,
                       http_requests, uuids>>
        /\ UNCHANGED <<commVars, unitVars>>

Monitor ==
    /\ last_call' =
           [op |-> "monitor_integration_health",
            report |-> monitor_integration_health(_integration_cache, time_now)]
    /\ UNCHANGED <<session, _integration_cache, integrations_table,
                   http_requests, uuids>>
    /\ UNCHANGED <<commVars, unitVars>>

NextHealth == Tick \/ CheckHealth \/ Monitor

SpecHealth == InitHealth /\ [][NextHealth]_vars

-----------------------------------------------------------------------------
(* SpecOnboarding: OnboardingAgent.process_message and get_purpose_profile on
   a conversation memory whose profile data is in the table already: the
   agent's own extraction hooks write none. Lists are modelled by their
   lengths, scores in hundredths *)

Stages ==
    <<"greeting", "values_discovery", "passions_exploration",
      "work_style_assessment", "skills_inventory", "personality_assessment",
      "profile_completion", "completed">>

\* the personality fields of profile_data
Traits == 5

\* profile_data: the lengths of its lists, which work style fields are set,
\* how many of the personality fields are
ProfileData ==
    [core_values : {0, 3, 5}, passions : {0, 2, 5},
     technical_skills : {0, 2, 6}, soft_skills : {0, 4},
     collaboration_preference : BOOLEAN, autonomy_preference : BOOLEAN,
     structure_preference : BOOLEAN, personality : {0, Traits - 1, Traits}]

\* the profile data the conversations in the table are drawn from
StoredProfiles ==
    {d \in ProfileData :
        /\ d.autonomy_preference = d.collaboration_preference
        /\ d.structure_preference => d.collaboration_preference}

\* the confidence scores the conversations in the table are drawn from
StoredConfidence == {0, 79, 80, 89, 90, 100}

\* start_conversation: initial_memory, with the data and score drawn
Memory(user_id, profile_data, confidence_score) ==
    [user_id |-> user_id, messages |-> 0, profile_data |-> profile_data,
     confidence_score |-> confidence_score, current_stage |-> "greeting"]

\* _calculate_profile_confidence without the caps of the three list scores
_calculate_profile_confidence_uncapped(memory) ==
    LET d == memory.profile_data
        work_style_complete ==
            (IF d.collaboration_preference THEN 1 ELSE 0)
            + (IF d.autonomy_preference THEN 1 ELSE 0)
            + (IF d.structure_preference THEN 1 ELSE 0)
    IN  4 * d.core_values + 4 * d.passions
        + 3 * (d.technical_skills + d.soft_skills)
        + 5 * work_style_complete + 3 * d.personality

\* OnboardingAgent._calculate_profile_confidence, in hundredths; on these
\* data the sum of the doubles is at least 0.7 exactly when this is at least
\* 70, it is the double 1.0 exactly when this is 100, and it is ordered as
\* the hundredths are
_calculate_profile_confidence(memory) ==
    LET d == memory.profile_data
        work_style_complete ==
            (IF d.collaboration_preference THEN 1 ELSE 0)
            + (IF d.autonomy_preference THEN 1 ELSE 0)
            + (IF d.structure_preference THEN 1 ELSE 0)
    IN  4 * Min(d.core_values, 5) + 4 * Min(d.passions, 5)
        + 3 * Min(d.technical_skills + d.soft_skills, 10)
        + 5 * work_style_complete + 3 * d.personality

\* _should_transition_to_passions asking for no core value at all
_should_transition_to_passions_always(memory) ==
    memory.profile_data.core_values >= 0

\* OnboardingAgent._should_transition_to_passions
_should_transition_to_passions(memory) == memory.profile_data.core_values >= 3

_should_transition_to_work_style(memory) == memory.profile_data.passions >= 2

_should_transition_to_skills(memory) ==
    /\ memory.profile_data.collaboration_preference
    /\ memory.profile_data.autonomy_preference

_should_transition_to_personality(memory) ==
    memory.profile_data.technical_skills + memory.profile_data.soft_skills >= 3

_should_complete_profile(memory) ==
    /\ memory.profile_data.personality = Traits
    /\ _calculate_profile_confidence(memory) >= 70

\* _handle_greeting_stage going on to the passions at once
_handle_greeting_stage_skipping(memory) == "passions_exploration"

\* the stage handlers: the next stage each of them returns
_handle_greeting_stage(memory) == "values_discovery"

_handle_values_discovery(memory) ==
    IF _should_transition_to_passions(memory) THEN "passions_exploration"
    ELSE "values_discovery"

_handle_passions_exploration(memory) ==
    IF _should_transition_to_work_style(memory) THEN "work_style_assessment"
    ELSE "passions_exploration"

_handle_work_style_assessment(memory) ==
    IF _should_transition_to_skills(memory) THEN "skills_inventory"
    ELSE "work_style_assessment"

_handle_skills_inventory(memory) ==
    IF _should_transition_to_personality(memory) THEN "personality_assessment"
    ELSE "skills_inventory"

_handle_personality_assessment(memory) ==
    IF _should_complete_profile(memory) THEN "profile_completion"
    ELSE "personality_assessment"

_complete_profile(memory) == "completed"

\* OnboardingAgent._check_profile_completion
_check_profile_completion(memory) ==
    /\ memory.profile_data.core_values > 0
    /\ memory.profile_data.passions > 0
    /\ memory.profile_data.technical_skills > 0
    /\ memory.profile_data.soft_skills > 0
    /\ memory.confidence_score >= 80

\* _load_memory making up a fresh memory for a conversation it does not find
_load_memory_defaulting(table, conversation_id, get) ==
    IF get = "ok" /\ conversation_id \in DOMAIN table
    THEN [found |-> TRUE, memory |-> table[conversation_id]]
    ELSE [found |-> TRUE,
          memory |-> [user_id |-> "u1", messages |-> 0,
                      profile_data |-> CHOOSE d \in StoredProfiles : TRUE,
                      confidence_score |-> 0, current_stage |-> "greeting"]]

\* OnboardingAgent._load_memory: None when get_item raises or finds no item
_load_memory(table, conversation_id, get) ==
    IF get = "ok" /\ conversation_id \in DOMAIN table
    THEN [found |-> TRUE, memory |-> table[conversation_id]]
    ELSE [found |-> FALSE, memory |-> None]

\* OnboardingAgent._save_memory: what put_item raises is logged and dropped
_save_memory(table, conversation_id, memory, put) ==
    IF put = "ok" THEN MapPut(table, conversation_id, memory) ELSE table

\* OnboardingAgent._call_claude: the text of the model, or the apology when
\* invoke_model or the parsing of its body raises
_call_claude(bedrock) ==
    IF bedrock = "ok" THEN "claude_text" ELSE "claude_apology"

\* the response of the stage handlers: _complete_profile writes its own text
\* and calls no model, the others return what _call_claude returned
StageResponse(current_stage, bedrock) ==
    IF current_stage = "profile_completion" THEN "profile_summary"
    ELSE _call_claude(bedrock)

\* OnboardingAgent.process_message. In stage completed the handler called,
\* _handle_general_query, does not exist: the AttributeError is caught and
\* nothing is saved
process_message(table, conversation_id, get, put, bedrock) ==
    LET l == _load_memory(table, conversation_id, get) IN
    IF ~l.found
    THEN [table |-> table, error |-> "conversation_not_found",
          current_stage |-> None, response |-> "not_found_reply"]
    ELSE LET memory == l.memory
             current_stage == memory.current_stage
         IN  IF current_stage \notin {Stages[k] : k \in 1..7}
             THEN [table |-> table, error |-> "AttributeError",
                   current_stage |-> None, response |-> "error_reply"]
             ELSE LET next_stage ==
                          CASE current_stage = "greeting" ->
                                   _handle_greeting_stage(memory)
                            [] current_stage = "values_discovery" ->
                                   _handle_values_discovery(memory)
                            [] current_stage = "passions_exploration" ->
                                   _handle_passions_exploration(memory)
                            [] current_stage = "work_style_assessment" ->
                                   _handle_work_style_assessment(memory)
                            [] current_stage = "skills_inventory" ->
                                   _handle_skills_inventory(memory)
                            [] current_stage = "personality_assessment" ->
                                   _handle_personality_assessment(memory)
                            [] current_stage = "profile_completion" ->
                                   _complete_profile(memory)
                  IN  [table |-> _save_memory(table, conversation_id,
                                              [memory EXCEPT
                                                  !.messages = @ + 2,
                                                  !.current_stage = next_stage],
                                              put),
                       error |-> None, current_stage |-> next_stage,
                       response |-> StageResponse(current_stage, bedrock)]

READY_FOR_MATCHING == "ready_for_matching"
ONBOARDING == "onboarding"

\* get_purpose_profile giving the status of a profile from 0.8 on
ProfileStatus_from_80(confidence_score) ==
    IF confidence_score >= 80 THEN READY_FOR_MATCHING ELSE ONBOARDING

\* get_purpose_profile: "UserStatus.READY_FOR_MATCHING if
\* memory.get('confidence_score', 0) >= 0.9 else UserStatus.ONBOARDING"
ProfileStatus(confidence_score) ==
    IF confidence_score >= 90 THEN READY_FOR_MATCHING ELSE ONBOARDING

\* get_purpose_profile returning None
NoProfile == [type |-> "NoneType"]

\* OnboardingAgent.get_purpose_profile; validates says whether the models
\* accept the collected data, a ValidationError is caught and gives None
get_purpose_profile(table, conversation_id, get, validates) ==
    LET l == _load_memory(table, conversation_id, get) IN
    IF ~l.found THEN NoProfile
    ELSE IF ~_check_profile_completion(l.memory) THEN NoProfile
    ELSE IF ~validates THEN NoProfile
    ELSE [type |-> "UserProfile", userId |-> l.memory.user_id,
          confidenceScore |-> l.memory.confidence_score,
          status |-> ProfileStatus(l.memory.confidence_score)]

\* conversation "c2" is not in the table
ConversationIds == {"c1", "c2"}

InitOnboarding ==
    /\ InitManager /\ ~has_loop
    /\ InitIntegration
    /\ InitNoRetry
    /\ InitNoAgent
    /\ InitNoFlow
    /\ InitNoApp
    /\ \E d \in StoredProfiles, c \in StoredConfidence :
           memory_table = MapPut(EmptyMap, "c1", Memory("u1", d, c))

UserMessage ==
    \E conversation_id \in ConversationIds, get \in {"ok", "ClientError"},
       put \in {"ok", "ClientError"}, bedrock \in {"ok", "ClientError"} :
    \E r \in {process_message(memory_table, conversation_id, get, put,
                              bedrock)} :
        /\ \A c \in DOMAIN memory_table :
               memory_table[c].messages < 2 * MaxTurns
        /\ memory_table' = r.table
        /\ last_call' = [op |-> "process_message",
                         conversation_id |-> conversation_id,
                         before |-> memory_table,
                         error |-> r.error, current_stage |-> r.current_stage,
                         response |-> r.response]
        /\ UNCHANGED <<session, _integration_cache, integrations_table,
                       http_requests, uuids>>
        /\ UNCHANGED <<commVars, retryVars, agentVars, flowVars, appVars>>

GetProfile ==
    \E conversation_id \in ConversationIds, get \in {"ok", "ClientError"},
       validates \in BOOLEAN :
        /\ last_call' = [op |-> "get_purpose_profile",
                         conversation_id |-> conversation_id,
                         found |-> _load_memory(memory_table, conversation_id,
                                                get).found,
                         profile |-> get_purpose_profile(memory_table,
                                                         conversation_id, get,
                                                         validates)]
        /\ UNCHANGED <<session, _integration_cache, integrations_table,
                       http_requests, uuids>>
        /\ UNCHANGED <<commVars, unitVars>>

NextOnboarding == UserMessage \/ GetProfile

SpecOnboarding == InitOnboarding /\ [][NextOnboarding]_vars

-----------------------------------------------------------------------------
(* SpecOnboard: the route POST /api/onboard of aws_app, one request a step *)

\* what the model can reply: whether the text states a confidence and which,
\* the length of the text, and whether it has one of 'values', 'skills',
\* 'passion'
AgentResponses ==
    [states : {TRUE}, stated : {89, 90}, length : {50}, keyword : {FALSE}]
    \cup [states : {FALSE}, stated : {0}, length : {50, 150, 250},
          keyword : BOOLEAN]

\* BedrockAgentService._extract_confidence_score
_extract_confidence_score(response) ==
    IF response.states THEN response.stated
    ELSE IF response.length > 200 /\ response.keyword THEN 75
    ELSE IF response.length > 100 THEN 50
    ELSE 25

\* BedrockAgentService.invoke_onboarding_agent: the reply and its confidence,
\* the apology with confidence 0 when invoke_model raises
invoke_onboarding_agent(bedrock, response) ==
    IF bedrock = "ok"
    THEN [response |-> "claude_text",
          confidence_score |-> _extract_confidence_score(response),
          error |-> None]
    ELSE [response |-> "claude_apology", confidence_score |-> 0,
          error |-> bedrock]

\* DataService.save_user_profile: False, and nothing stored, when put_item
\* raises
save_user_profile(table, user_profile, put) ==
    IF put = "ok"
    THEN [saved |-> TRUE, table |-> MapPut(table, user_profile.userId, user_profile)]
    ELSE [saved |-> FALSE, table |-> table]

\* onboard_user: "if result['confidence_score'] >= 90"
ReadyThreshold == 90

\* the request bodies: no JSON object, no message, a message
Bodies == {"not_json", "no_message", "message"}

\* the route onboard_user
onboard_user(sessions, table, body, session_id, bedrock, response, put) ==
    IF body = "not_json"
    THEN [http |-> 500, ready_for_matching |-> None, sessions |-> sessions,
          table |-> table, confidence_score |-> None]
    ELSE IF body = "no_message"
    THEN [http |-> 400, ready_for_matching |-> None, sessions |-> sessions,
          table |-> table, confidence_score |-> None]
    ELSE LET result == invoke_onboarding_agent(bedrock, response)
             history == IF session_id \in DOMAIN sessions
                        THEN sessions[session_id]
                        ELSE [messages |-> <<>>, confidence_score |-> 0]
             turn == [agent |-> result.response,
                      confidence_score |-> result.confidence_score]
             stored == [messages |-> Append(history.messages, turn),
                        confidence_score |-> result.confidence_score]
             user_profile == [userId |-> session_id,
                              confidenceScore |-> result.confidence_score,
                              status |-> "ready_for_matching"]
         IN  IF result.confidence_score >= ReadyThreshold
             THEN [http |-> 200, ready_for_matching |-> TRUE,
                   sessions |-> MapPut(sessions, session_id, stored),
                   table |-> save_user_profile(table, user_profile, put).table,
                   confidence_score |-> result.confidence_score]
             ELSE [http |-> 200, ready_for_matching |-> FALSE,
                   sessions |-> MapPut(sessions, session_id, stored),
                   table |-> table,
                   confidence_score |-> result.confidence_score]

SessionIds == {"s1", "s2"}

\* the turns stored over all sessions
Turns(sessions) ==
    LET RECURSIVE Sum(_)
        Sum(S) == IF S = {} THEN 0
                  ELSE LET x == CHOOSE x \in S : TRUE
                       IN  Len(sessions[x].messages) + Sum(S \ {x})
    IN  Sum(DOMAIN sessions)

InitOnboard ==
    /\ InitManager /\ ~has_loop
    /\ InitIntegration
    /\ InitNoRetry
    /\ InitNoAgent
    /\ InitNoFlow
    /\ InitNoOnboarding
    /\ InitNoApp

OnboardUser ==
    /\ Turns(conversation_sessions) < MaxChat
    /\ \E body \in Bodies, session_id \in SessionIds,
          bedrock \in {"ok", "ClientError"}, response \in AgentResponses,
          put \in {"ok", "ClientError"} :
       \E r \in {onboard_user(conversation_sessions, user_profiles_table, body,
                              session_id, bedrock, response, put)} :
           /\ conversation_sessions' = r.sessions
           /\ user_profiles_table' = r.table
           /\ UNCHANGED <<reports_table, statusVars, notifVars, raceVars>>
           /\ last_call' = [op |-> "onboard_user", body |-> body,
                            session_id |-> session_id, put |-> put,
                            before |-> [sessions |-> conversation_sessions,
                                        table |-> user_profiles_table],
                            http |-> r.http,
                            ready_for_matching |-> r.ready_for_matching,
                            confidence_score |-> r.confidence_score]
    /\ UNCHANGED <<session, _integration_cache, integrations_table,
                   http_requests, uuids>>
    /\ UNCHANGED <<commVars, retryVars, agentVars, flowVars, onbVars>>

NextOnboard == OnboardUser

SpecOnboard == InitOnboard /\ [][NextOnboard]_vars

-----------------------------------------------------------------------------
(* SpecMatching: MatchingAgent.find_team_matches, one call a step. Raw scores
   are in tenths and the scores of a MatchScore in hundredths, so that
   score / 10.0 keeps the number: 85 tenths are 8.5 and 85 hundredths 0.85 *)

\* the raw scores of the hits the index holds: 0, 7.2, 8.5, 10.0, 12.0
RawScores == {0, 72, 85, 100, 120}

HitLists == UNION {[1..n -> RawScores] : n \in 0..MaxHits}

\* MatchingAgent._generate_profile_embedding: the vector of the embedding
\* model, the empty list when invoke_model raises
_generate_profile_embedding(bedrock) ==
    IF bedrock = "ok" THEN <<1, 2, 3>> ELSE <<>>

\* MatchingAgent._search_similar_teams: at most limit hits when the search
\* answers 200, the empty list for another status or when requests.post
\* raises. The search cluster answers a k-NN query that carries no vector with
\* status 400
_search_similar_teams(user_embedding, limit, search, hits) ==
    IF search = "ok" /\ user_embedding # <<>>
    THEN SubSeq(hits, 1, Min(Len(hits), limit))
    ELSE <<>>

\* MatchingAgent._generate_match_explanation with _call_claude: the text of
\* the model, stripped, or the fixed sentence of _call_claude when the model
\* cannot be reached; the number is the length of the text
_generate_match_explanation(claude) ==
    IF claude = "ok" THEN 60
    ELSE IF claude = "short" THEN 2
    ELSE 53

\* core_models.MatchScore: every score is validated with ge=0.0, le=1.0
MatchScoreValid(match_score) ==
    /\ match_score.overall_score \in 0..100
    /\ match_score.skill_alignment \in 0..100
    /\ match_score.value_alignment \in 0..100
    /\ match_score.work_style_compatibility \in 0..100
    /\ match_score.purpose_alignment \in 0..100

\* find_team_matches: the MatchScore built for a hit
MatchScore(score) ==
    [overall_score |-> Min(score, 100), skill_alignment |-> score,
     value_alignment |-> score, work_style_compatibility |-> score,
     purpose_alignment |-> score]

\* find_team_matches: the TeamMatch built for a hit, and whether the models
\* accept it: MatchReason wants a description of 10 characters at least
TeamMatch(score, explanation) ==
    [valid |-> MatchScoreValid(MatchScore(score)) /\ explanation >= 10,
     match |-> [match_score |-> MatchScore(score), reasons |-> 3]]

\* find_team_matches keeping the matches it built before the failure
OnException_partial(matches) == matches

\* find_team_matches: "except Exception as e: ... return []"
OnException(matches) == <<>>

\* the loop "for result in search_results" of find_team_matches
RECURSIVE MatchLoop(_, _, _)
MatchLoop(search_results, claude, matches) ==
    IF search_results = <<>> THEN [failed |-> FALSE, matches |-> matches]
    ELSE LET m == TeamMatch(Head(search_results),
                            _generate_match_explanation(claude))
         IN  IF ~m.valid
             THEN [failed |-> TRUE, matches |-> OnException(matches)]
             ELSE MatchLoop(Tail(search_results), claude,
                            Append(matches, m.match))

\* MatchingAgent.find_team_matches
find_team_matches(bedrock, search, claude, hits, limit) ==
    MatchLoop(_search_similar_teams(_generate_profile_embedding(bedrock),
                                    limit, search, hits),
              claude, <<>>)

InitMatching ==
    /\ InitManager /\ ~has_loop
    /\ InitIntegration
    /\ InitNoRetry
    /\ InitNoAgent
    /\ InitNoFlow
    /\ InitNoOnboarding
    /\ InitNoApp

FindTeamMatches ==
    /\ last_call.op = "none"
    /\ \E bedrock \in {"ok", "ClientError"},
          search \in {"ok", "status_500", "ConnectionError"},
          claude \in {"ok", "short", "ClientError"},
          hits \in HitLists, limit \in 1..MaxHits :
       \E r \in {find_team_matches(bedrock, search, claude, hits, limit)} :
           last_call' = [op |-> "find_team_matches", bedrock |-> bedrock,
                         search |-> search, claude |-> claude, hits |-> hits,
                         limit |-> limit, failed |-> r.failed,
                         matches |-> r.matches]
    /\ UNCHANGED <<session, _integration_cache, integrations_table,
                   http_requests, uuids>>
    /\ UNCHANGED <<commVars, unitVars>>

NextMatching == FindTeamMatches

SpecMatching == InitMatching /\ [][NextMatching]_vars

-----------------------------------------------------------------------------
(* SpecAlerts: TeamAgent._generate_health_alerts, one call a step. Indicator
   values and thresholds are in hundredths *)

\* _generate_health_alerts: the dict thresholds, in its order, with the
\* category indicator.replace("_health", "") of each
Thresholds ==
    <<[indicator |-> "communication_health", category |-> "communication",
       threshold |-> 60],
      [indicator |-> "collaboration_health", category |-> "collaboration",
       threshold |-> 60],
      [indicator |-> "productivity_health", category |-> "productivity",
       threshold |-> 70],
      [indicator |-> "engagement_health", category |-> "engagement",
       threshold |-> 60]>>

\* the double threshold * 0.8 in two-hundredths: 0.6 * 0.8 is the double 0.48,
\* 0.7 * 0.8 is 0.5599999999999999, between 0.555 and 0.56
SeverityCut(threshold) == IF threshold = 70 THEN 111 ELSE (threshold * 8) \div 5

\* _generate_health_alerts: "medium" if indicators[indicator] > threshold * 0.8
\* else "high"
Severity(value, threshold) ==
    IF 2 * value > SeverityCut(threshold) THEN "medium" ELSE "high"

\* the values an indicator is drawn from
IndicatorValues == {30, 48, 49, 55, 56, 60, 70}

Indicators ==
    [{Thresholds[k].indicator : k \in 1..Len(Thresholds)} -> IndicatorValues]

\* TeamAgent._generate_health_alerts
_generate_health_alerts(indicators) ==
    LET Alert(t) == [type |-> "warning", category |-> t.category,
                     severity |-> Severity(indicators[t.indicator], t.threshold),
                     current_value |-> indicators[t.indicator],
                     threshold |-> t.threshold]
        low == SelectSeq(Thresholds,
                         LAMBDA t : indicators[t.indicator] < t.threshold)
    IN  [k \in 1..Len(low) |-> Alert(low[k])]

InitAlerts ==
    /\ InitManager /\ ~has_loop
    /\ InitIntegration
    /\ InitNoRetry
    /\ InitNoAgent
    /\ InitNoFlow
    /\ InitNoOnboarding
    /\ InitNoApp

GenerateHealthAlerts ==
    /\ last_call.op = "none"
    /\ \E indicators \in Indicators :
           last_call' = [op |-> "_generate_health_alerts",
                         indicators |-> indicators,
                         alerts |-> _generate_health_alerts(indicators)]
    /\ UNCHANGED <<session, _integration_cache, integrations_table,
                   http_requests, uuids>>
    /\ UNCHANGED <<commVars, unitVars>>

NextAlerts == GenerateHealthAlerts

SpecAlerts == InitAlerts /\ [][NextAlerts]_vars

-----------------------------------------------------------------------------
(* SpecAnalyze: TeamAgent.analyze_team_performance, one call a step, on a
   teams table that holds team "t1" only *)

TeamsTable == [t1 |-> [team_id |-> "t1", members |-> 3]]

\* analyze_team_performance returning no report
NoReport == [type |-> "NoneType"]

\* TeamAgent._get_team_data: the item, None when there is none or when
\* get_item raises a ClientError
_get_team_data(team_id, get) ==
    IF get = "ok" /\ team_id \in DOMAIN TeamsTable
    THEN [found |-> TRUE, team_data |-> TeamsTable[team_id]]
    ELSE [found |-> FALSE, team_data |-> None]

\* TeamAgent._get_performance_metrics: the averages of the rows, {} when the
\* query raises a ClientError; the number is how many metrics there are
_get_performance_metrics(query) == IF query = "ok" THEN 4 ELSE 0

\* TeamAgent._generate_coaching_insights: the insights parsed from the reply
\* of the model, [] when the model cannot be reached; the number is how many
_generate_coaching_insights(bedrock) == IF bedrock = "ok" THEN 2 ELSE 0

\* _store_performance_report letting the failure of put_item through
_store_performance_report_raising(table, report, put) ==
    IF put = "ok" THEN [raised |-> None, table |-> Append(table, report)]
    ELSE [raised |-> put, table |-> table]

\* TeamAgent._store_performance_report: what put_item raises is logged,
\* "Don't raise - storage failure shouldn't break the analysis"
_store_performance_report(table, report, put) ==
    IF put = "ok" THEN [raised |-> None, table |-> Append(table, report)]
    ELSE [raised |-> None, table |-> table]

\* the outcome of analyze_team_performance after its report was built
StoreAndReturn(report, stored) ==
    [raised |-> stored.raised,
     report |-> IF stored.raised = None THEN report ELSE NoReport,
     metrics_queries |-> 1, bedrock_calls |-> 2, table |-> stored.table]

\* TeamAgent.analyze_team_performance: _analyze_team_dynamics and
\* _generate_coaching_insights call the model once each
analyze_team_performance(table, team_id, get, query, bedrock, put) ==
    IF ~_get_team_data(team_id, get).found
    THEN [raised |-> "ValueError: Team not found", report |-> NoReport,
          metrics_queries |-> 0, bedrock_calls |-> 0, table |-> table]
    ELSE StoreAndReturn(
             [type |-> "TeamPerformanceReport", team_id |-> team_id,
              metrics |-> _get_performance_metrics(query),
              insights |-> _generate_coaching_insights(bedrock)],
             _store_performance_report(
                 table,
                 [team_id |-> team_id,
                  metrics |-> _get_performance_metrics(query),
                  insights |-> _generate_coaching_insights(bedrock)],
                 put))

TeamIds == {"t1", "t2"}

InitAnalyze ==
    /\ InitManager /\ ~has_loop
    /\ InitIntegration
    /\ InitNoRetry
    /\ InitNoAgent
    /\ InitNoFlow
    /\ InitNoOnboarding
    /\ InitNoApp

AnalyzeTeamPerformance ==
    /\ Len(reports_table) < MaxAnalyses
    /\ \E team_id \in TeamIds, get \in {"ok", "ClientError"},
          query \in {"ok", "ClientError"}, bedrock \in {"ok", "ClientError"},
          put \in {"ok", "ClientError"} :
       \E r \in {analyze_team_performance(reports_table, team_id, get, query,
                                          bedrock, put)} :
           /\ reports_table' = r.table
           /\ last_call' = [op |-> "analyze_team_performance",
                            team_id |-> team_id, get |-> get, put |-> put,
                            before |-> reports_table,
                            raised |-> r.raised, report |-> r.report,
                            metrics_queries |-> r.metrics_queries,
                            bedrock_calls |-> r.bedrock_calls]
    /\ UNCHANGED <<webVars, statusVars, notifVars, raceVars>>
    /\ UNCHANGED <<session, _integration_cache, integrations_table,
                   http_requests, uuids>>
    /\ UNCHANGED <<commVars, retryVars, agentVars, flowVars, onbVars>>

NextAnalyze == AnalyzeTeamPerformance

SpecAnalyze == InitAnalyze /\ [][NextAnalyze]_vars

-----------------------------------------------------------------------------
(* SpecRoutes: the team and coaching routes of aws_app with the tool functions
   of the team agent behind them, one request a step *)

Actions ==
    {"check_project_status", "generate_retrospective",
     "update_performance_metrics", "provide_coaching_insight"}

\* a result of a tool function: its statusCode and the 'error' of its body
ToolResult(statusCode, error) == [statusCode |-> statusCode, error |-> error]

\* the tool functions check_project_status, generate_retrospective,
\* update_performance_metrics and provide_coaching_insight: a ValueError for a
\* missing parameter and what the table raises are caught alike and reported
\* with statusCode 500; a user without a profile is reported with 404
ToolFunction(action, parameters, dynamo, found) ==
    IF action = "provide_coaching_insight"
    THEN IF ~parameters.user_id THEN ToolResult(500, "user_id is required")
         ELSE IF dynamo # "ok" THEN ToolResult(500, dynamo)
         ELSE IF ~found THEN ToolResult(404, "User not found")
         ELSE ToolResult(200, None)
    ELSE IF ~parameters.team_id THEN ToolResult(500, "team_id is required")
    ELSE IF action = "update_performance_metrics" /\ ~parameters.metrics
    THEN ToolResult(500, "team_id and metrics are required")
    ELSE IF dynamo # "ok" THEN ToolResult(500, dynamo)
    ELSE ToolResult(200, None)

\* team_agent_tools.handler
handler(action, parameters, dynamo, found) ==
    IF action \in Actions THEN ToolFunction(action, parameters, dynamo, found)
    ELSE ToolResult(400, "Unknown action")

\* BedrockAgentService.invoke_team_agent: the parsed body of the result of
\* the function, {'error': ...} when the invocation raises
invoke_team_agent(lambda, result) ==
    IF lambda = "ok" THEN [error |-> result.error] ELSE [error |-> lambda]

\* the routes: the action each asks for, whether it reads a JSON body, and
\* whether it passes a team id and a user id
Routes ==
    {[route |-> "/api/team/<team_id>/status", reads_json |-> FALSE,
      action |-> "check_project_status", team_id |-> TRUE, user_id |-> FALSE],
     [route |-> "/api/team/<team_id>/retrospective", reads_json |-> TRUE,
      action |-> "generate_retrospective", team_id |-> TRUE, user_id |-> FALSE],
     [route |-> "/api/team/<team_id>/performance", reads_json |-> TRUE,
      action |-> "update_performance_metrics", team_id |-> TRUE,
      user_id |-> FALSE],
     [route |-> "/api/user/<user_id>/coaching", reads_json |-> TRUE,
      action |-> "provide_coaching_insight", team_id |-> FALSE,
      user_id |-> TRUE]}

\* a route handler: jsonify(result) goes out with status 200; 500 only when
\* the handler itself raises, which it does on a request without a JSON body
RouteHandler(r, has_json, metrics, lambda, dynamo, found) ==
    IF r.reads_json /\ ~has_json
    THEN [http |-> 500, error |-> "AttributeError", statusCode |-> None,
          invoked |-> FALSE]
    ELSE LET result == handler(r.action,
                               [team_id |-> r.team_id, user_id |-> r.user_id,
                                metrics |-> metrics],
                               dynamo, found)
         IN  [http |-> 200, error |-> invoke_team_agent(lambda, result).error,
              statusCode |-> IF lambda = "ok" THEN result.statusCode ELSE None,
              invoked |-> TRUE]

InitRoutes ==
    /\ InitManager /\ ~has_loop
    /\ InitIntegration
    /\ InitNoRetry
    /\ InitNoAgent
    /\ InitNoFlow
    /\ InitNoOnboarding
    /\ InitNoApp

Request ==
    /\ last_call.op = "none"
    /\ \E r \in Routes, has_json \in BOOLEAN, metrics \in BOOLEAN,
          lambda \in {"ok", "ClientError"}, dynamo \in {"ok", "ClientError"},
          found \in BOOLEAN :
       \E a \in {RouteHandler(r, has_json, metrics, lambda, dynamo, found)} :
           last_call' = [op |-> "request", route |-> r.route,
                         has_json |-> has_json, metrics |-> metrics,
                         lambda |-> lambda, dynamo |-> dynamo, found |-> found,
                         invoked |-> a.invoked, statusCode |-> a.statusCode,
                         http |-> a.http, error |-> a.error]
    /\ UNCHANGED <<session, _integration_cache, integrations_table,
                   http_requests, uuids>>
    /\ UNCHANGED <<commVars, unitVars>>

NextRoutes == Request

SpecRoutes == InitRoutes /\ [][NextRoutes]_vars

-----------------------------------------------------------------------------
(* SpecStatus: the connection status of the protocol clients of one
   MultiProtocolClient and what the client records and broadcasts of it *)

\* status handlers a caller registers: one that returns, one that raises
HandlerKinds == {"returns", "raises"}

\* _update_protocol_status, the loop over status_handlers: every handler is
\* called with a copy of the map, an exception of one is logged and dropped
status_handler_calls(handlers, status_map) ==
    [i \in 1..Len(handlers) |->
        [handler |-> i, raised |-> handlers[i] = "raises",
         argument |-> status_map]]

\* _update_protocol_status as the connection handler of a protocol client
UpdateProtocolStatus(protocol, status) ==
    /\ protocol_status' = [protocol_status EXCEPT ![protocol] = status]
    /\ status_calls' =
           status_handler_calls(status_handlers,
                                [protocol_status EXCEPT ![protocol] = status])

\* a protocol client sets its own status and calls no connection handler
SilentStatus ==
    /\ status_calls' = <<>>
    /\ UNCHANGED protocol_status

\* the other variables of a step of this specification
StatusFrame(op, protocol) ==
    /\ last_call' = [op |-> op, protocol |-> protocol,
                     before |-> sub_status]
    /\ UNCHANGED <<session, _integration_cache, integrations_table,
                   http_requests, uuids>>
    /\ UNCHANGED <<commVars, retryVars, agentVars, flowVars, onbVars>>
    /\ UNCHANGED <<webVars, reports_table, notifVars, raceVars>>

InitStatus ==
    /\ InitManager /\ ~has_loop
    /\ InitIntegration
    /\ InitNoRetry
    /\ InitNoAgent
    /\ InitNoFlow
    /\ InitNoOnboarding
    /\ InitNoWeb
    /\ InitNoNotification
    /\ InitNoRace
    /\ protocol_status = (MQTT :> DISCONNECTED) @@ (WEBRTC :> DISCONNECTED)
                             @@ (OFFLINE_QUEUE :> CONNECTED)
    /\ sub_status = EmptyMap
    /\ status_handlers = <<>>
    /\ status_calls = <<>>

\* add_status_handler
AddStatusHandler ==
    /\ Len(status_handlers) < MaxStatusHandlers
    /\ \E kind \in HandlerKinds :
           status_handlers' = Append(status_handlers, kind)
    /\ status_calls' = <<>>
    /\ UNCHANGED <<protocol_status, sub_status>>
    /\ StatusFrame("add_status_handler", "none")

\* the connection callbacks of the MQTT library: _on_connect with rc = 0 or
\* another code, and _on_disconnect; each calls the connection handlers
MqttCallbackStatus == {CONNECTED, FAILED, DISCONNECTED}

\* initialize_mqtt with MQTTClient.connect: the client becomes CONNECTING, and
\* then connect_async raises (FAILED, no handler called), or _on_connect runs
\* within the five seconds, or the wait runs out
InitializeMqtt ==
    /\ MQTT \notin DOMAIN sub_status
    /\ \E outcome \in {"raises", "accepted", "refused", "timeout"} :
           CASE outcome = "raises" ->
                    /\ sub_status' = sub_status @@ (MQTT :> FAILED)
                    /\ SilentStatus
             [] outcome = "accepted" ->
                    /\ sub_status' = sub_status @@ (MQTT :> CONNECTED)
                    /\ UpdateProtocolStatus(MQTT, CONNECTED)
             [] outcome = "refused" ->
                    /\ sub_status' = sub_status @@ (MQTT :> FAILED)
                    /\ UpdateProtocolStatus(MQTT, FAILED)
             [] OTHER ->
                    /\ sub_status' = sub_status @@ (MQTT :> CONNECTING)
                    /\ SilentStatus
    /\ UNCHANGED status_handlers
    /\ StatusFrame("initialize_mqtt", MQTT)

\* _on_connect and _on_disconnect, called by the network loop later on
MqttCallback ==
    /\ MQTT \in DOMAIN sub_status
    /\ \E status \in MqttCallbackStatus :
           /\ sub_status' = [sub_status EXCEPT ![MQTT] = status]
           /\ UpdateProtocolStatus(MQTT, status)
    /\ UNCHANGED status_handlers
    /\ StatusFrame("mqtt_callback", MQTT)

\* initialize_webrtc: the new client is DISCONNECTED; when
\* create_peer_connection raises, FAILED is recorded for the protocol
InitializeWebrtc ==
    /\ WEBRTC \notin DOMAIN sub_status
    /\ sub_status' = sub_status @@ (WEBRTC :> DISCONNECTED)
    /\ \E raises \in BOOLEAN :
           IF raises THEN UpdateProtocolStatus(WEBRTC, FAILED)
           ELSE SilentStatus
    /\ UNCHANGED status_handlers
    /\ StatusFrame("initialize_webrtc", WEBRTC)

\* connection states of a peer connection
ConnectionStates ==
    {"new", "connecting", "connected", "disconnected", "failed", "closed"}

\* on_connectionstatechange: three states change the status, every state
\* calls the connection handlers with the status
on_connectionstatechange(status, state) ==
    CASE state = "connected" -> CONNECTED
      [] state = "disconnected" -> DISCONNECTED
      [] state = "failed" -> FAILED
      [] OTHER -> status

ConnectionStateChange ==
    /\ WEBRTC \in DOMAIN sub_status
    /\ \E state \in ConnectionStates \ {"closed"} :
         \E status \in {on_connectionstatechange(sub_status[WEBRTC], state)} :
           /\ sub_status' = [sub_status EXCEPT ![WEBRTC] = status]
           /\ UpdateProtocolStatus(WEBRTC, status)
    /\ UNCHANGED status_handlers
    /\ StatusFrame("on_connectionstatechange", WEBRTC)

\* MultiProtocolClient.close: MQTTClient.disconnect stops the network loop
\* and disconnects, and the library may or may not call _on_disconnect;
\* WebRTCClient.close closes the peer connection, whose state change to
\* "closed" reports the old status, and then sets DISCONNECTED itself
Close ==
    /\ DOMAIN sub_status # {}
    /\ \E on_disconnect \in BOOLEAN :
         LET mqtt_closed ==
                 IF MQTT \in DOMAIN sub_status /\ on_disconnect
                 THEN [protocol_status EXCEPT ![MQTT] = DISCONNECTED]
                 ELSE protocol_status
             mqtt_calls ==
                 IF MQTT \in DOMAIN sub_status /\ on_disconnect
                 THEN status_handler_calls(status_handlers, mqtt_closed)
                 ELSE <<>>
             reported ==
                 IF WEBRTC \in DOMAIN sub_status
                 THEN on_connectionstatechange(sub_status[WEBRTC], "closed")
                 ELSE DISCONNECTED
             all_closed ==
                 IF WEBRTC \in DOMAIN sub_status
                 THEN [mqtt_closed EXCEPT ![WEBRTC] = reported]
                 ELSE mqtt_closed
             webrtc_calls ==
                 IF WEBRTC \in DOMAIN sub_status
                 THEN status_handler_calls(status_handlers, all_closed)
                 ELSE <<>>
         IN  /\ protocol_status' = all_closed
             /\ status_calls' = mqtt_calls \o webrtc_calls
             /\ sub_status' =
                    [p \in DOMAIN sub_status |->
                        IF p = WEBRTC \/ on_disconnect THEN DISCONNECTED
                        ELSE sub_status[p]]
    /\ UNCHANGED status_handlers
    /\ StatusFrame("close", "all")

NextStatus ==
    \/ AddStatusHandler
    \/ InitializeMqtt
    \/ MqttCallback
    \/ InitializeWebrtc
    \/ ConnectionStateChange
    \/ Close

SpecStatus == InitStatus /\ [][NextStatus]_vars

-----------------------------------------------------------------------------
(* SpecConfidence: OnboardingAgent._calculate_profile_confidence on a
   conversation memory before and after one item is added to its profile *)

\* the profile data the score is computed on: list lengths below, at and above
\* the caps, any work style fields, some or all personality fields
ConfidenceProfiles ==
    [core_values : {0, 4, 5, 6}, passions : {0, 4, 5, 6},
     technical_skills : {0, 5, 6, 7}, soft_skills : {0, 3, 4},
     collaboration_preference : BOOLEAN, autonomy_preference : BOOLEAN,
     structure_preference : BOOLEAN, personality : {0, Traits - 1, Traits}]

ListFields == {"core_values", "passions", "technical_skills", "soft_skills"}

WorkStyleFields ==
    {"collaboration_preference", "autonomy_preference", "structure_preference"}

\* the fields of a profile that can take one more item
OpenFields(d) ==
    ListFields \cup {f \in WorkStyleFields : ~d[f]}
        \cup (IF d.personality < Traits THEN {"personality"} ELSE {})

\* the profile after an item is appended to a list, a work style field is
\* set, or one more personality field is
AddItem(d, field) ==
    IF field \in WorkStyleFields THEN [d EXCEPT ![field] = TRUE]
    ELSE [d EXCEPT ![field] = @ + 1]

InitConfidence ==
    /\ InitManager /\ ~has_loop
    /\ InitIntegration
    /\ InitNoRetry
    /\ InitNoAgent
    /\ InitNoFlow
    /\ InitNoOnboarding
    /\ InitNoApp

CalculateProfileConfidence ==
    /\ last_call.op = "none"
    /\ \E d \in ConfidenceProfiles :
         \E field \in OpenFields(d) :
           last_call' =
               [op |-> "_calculate_profile_confidence",
                profile_data |-> AddItem(d, field), field |-> field,
                before |-> _calculate_profile_confidence(
                               Memory("u1", d, 0)),
                confidence |-> _calculate_profile_confidence(
                                   Memory("u1", AddItem(d, field), 0))]
    /\ UNCHANGED <<session, _integration_cache, integrations_table,
                   http_requests, uuids>>
    /\ UNCHANGED <<commVars, unitVars>>

NextConfidence == CalculateProfileConfidence

SpecConfidence == InitConfidence /\ [][NextConfidence]_vars

-----------------------------------------------------------------------------
(* SpecNotify: NotificationService of app.py, its detection thread and the
   callers of start and stop. The application calls start when the module is
   loaded and stop at the teardown of every application context, so a stop
   can begin while another one waits in join; a start begins when no other
   call is under way. ns_call counts the callers waiting in join *)

\* the detection threads that have not left _detect_loop
Alive(all_threads) == {t \in DOMAIN all_threads : all_threads[t].alive}

\* start that makes a thread whether or not the service is running
start_unguarded(is_running, current, all_threads) ==
    LET t == Cardinality(DOMAIN all_threads) + 1
    IN  [running |-> TRUE, thread |-> t,
         threads |-> all_threads @@ (t :> [alive |-> TRUE, checks |-> 0])]

\* NotificationService.start: when not running, set running and start a new
\* daemon thread on _detect_loop
start(is_running, current, all_threads) ==
    LET t == Cardinality(DOMAIN all_threads) + 1
    IN  IF ~is_running
        THEN [running |-> TRUE, thread |-> t,
              threads |-> all_threads @@ (t :> [alive |-> TRUE, checks |-> 0])]
        ELSE [running |-> is_running, thread |-> current,
              threads |-> all_threads]

\* the other variables of a step of this specification
NotifyFrame(op) ==
    /\ last_call' = [op |-> op, was_running |-> running,
                     threads_before |-> DOMAIN threads]
    /\ UNCHANGED <<session, _integration_cache, integrations_table,
                   http_requests, uuids>>
    /\ UNCHANGED <<commVars, retryVars, agentVars, flowVars, onbVars>>
    /\ UNCHANGED <<webVars, reports_table, statusVars, raceVars>>

InitNotify ==
    /\ InitManager /\ ~has_loop
    /\ InitIntegration
    /\ InitNoRetry
    /\ InitNoAgent
    /\ InitNoFlow
    /\ InitNoOnboarding
    /\ InitNoWeb
    /\ InitNoStatus
    /\ InitNoNotification
    /\ InitNoRace

Start ==
    /\ ns_call = 0
    /\ Cardinality(DOMAIN threads) < MaxStarts
    /\ \E r \in {start(running, thread, threads)} :
           /\ running' = r.running
           /\ thread' = r.thread
           /\ threads' = r.threads
    /\ UNCHANGED ns_call
    /\ NotifyFrame("start")

\* NotificationService.stop up to join: running is cleared; without a thread
\* the call returns, with one the caller waits in join
Stop ==
    /\ ns_call < MaxCallers
    /\ running' = FALSE
    /\ ns_call' = IF thread = 0 THEN ns_call ELSE ns_call + 1
    /\ UNCHANGED <<thread, threads>>
    /\ NotifyFrame(IF thread = 0 THEN "stop_returned" ELSE "stop")

\* join returns once the thread has ended, and stop returns
StopReturn ==
    /\ ns_call > 0
    /\ ~threads[thread].alive
    /\ ns_call' = ns_call - 1
    /\ UNCHANGED <<running, thread, threads>>
    /\ NotifyFrame("stop_returned")

\* _detect_loop: one test of the loop condition by a detection thread, which
\* checks for notifications and sleeps, or leaves the loop and ends
DetectLoop ==
    /\ \E t \in Alive(threads) :
           IF running
           THEN /\ threads[t].checks < MaxChecks
                /\ threads' = [threads EXCEPT ![t].checks = @ + 1]
           ELSE threads' = [threads EXCEPT ![t].alive = FALSE]
    /\ UNCHANGED <<running, thread, ns_call>>
    /\ NotifyFrame("_detect_loop")

NextNotify == Start \/ Stop \/ StopReturn \/ DetectLoop

SpecNotify == InitNotify /\ [][NextNotify]_vars

-----------------------------------------------------------------------------
(* SpecConversation: conversations made by OnboardingAgent.start_conversation
   and the messages processed in them *)

\* int(datetime.now().timestamp()) at the calls of start_conversation
Timestamps == {1, 2}

\* f"onboarding-{user_id}-{int(datetime.now().timestamp())}", by its parts
ConversationId(user_id, now) == <<"onboarding", user_id, now>>

\* profile_data of a new conversation, {}: every list read from it is empty
\* and no field is set
EmptyProfile ==
    [core_values |-> 0, passions |-> 0, technical_skills |-> 0,
     soft_skills |-> 0, collaboration_preference |-> FALSE,
     autonomy_preference |-> FALSE, structure_preference |-> FALSE,
     personality |-> 0]

\* _generate_greeting_response reporting the stage the memory is stored with
_generate_greeting_response_stored(conversation_id) ==
    [response |-> "greeting_text", conversation_id |-> conversation_id,
     current_stage |-> "greeting", profile_complete |-> FALSE,
     confidence_score |-> 0]

\* OnboardingAgent._generate_greeting_response
_generate_greeting_response(conversation_id) ==
    [response |-> "greeting_text", conversation_id |-> conversation_id,
     current_stage |-> "values_discovery", profile_complete |-> FALSE,
     confidence_score |-> 0]

\* what process_message returns to its caller, from the outcome of the model
process_message_result(conversation_id, r) ==
    IF r.error # None
    THEN [response |-> r.response, conversation_id |-> conversation_id,
          error |-> r.error]
    ELSE [response |-> r.response, conversation_id |-> conversation_id,
          current_stage |-> r.current_stage, profile_complete |-> FALSE,
          confidence_score |-> 0]

\* start_conversation with an initial message: "return
\* self.process_message(conversation_id, initial_message)"
start_with_message(conversation_id, initial_memory, r) ==
    [table |-> r.table, saved |-> <<initial_memory>>,
     result |-> process_message_result(conversation_id, r)]

\* OnboardingAgent.start_conversation: the initial memory is handed to
\* _save_memory once, then the first message is processed or the greeting
\* returned. put1 is the outcome of the first put_item, put2 of the one of
\* process_message
start_conversation(table, user_id, now, initial_message, put1, get, put2, bedrock) ==
    IF initial_message
    THEN start_with_message(
             ConversationId(user_id, now), Memory(user_id, EmptyProfile, 0),
             process_message(
                 _save_memory(table, ConversationId(user_id, now),
                              Memory(user_id, EmptyProfile, 0), put1),
                 ConversationId(user_id, now), get, put2, bedrock))
    ELSE [table |-> _save_memory(table, ConversationId(user_id, now),
                                 Memory(user_id, EmptyProfile, 0), put1),
          saved |-> <<Memory(user_id, EmptyProfile, 0)>>,
          result |-> _generate_greeting_response(
                         ConversationId(user_id, now))]

\* the other variables of a step of this specification
ConversationFrame ==
    /\ UNCHANGED <<session, _integration_cache, integrations_table,
                   http_requests, uuids>>
    /\ UNCHANGED <<commVars, retryVars, agentVars, flowVars, appVars>>

InitConversation ==
    /\ InitManager /\ ~has_loop
    /\ InitIntegration
    /\ InitNoRetry
    /\ InitNoAgent
    /\ InitNoFlow
    /\ InitNoOnboarding
    /\ InitNoApp

StartConversation ==
    \E user_id \in Users, now \in Timestamps, initial_message \in BOOLEAN,
       put1 \in {"ok", "ClientError"} :
      \E get \in IF initial_message THEN {"ok", "ClientError"} ELSE {"ok"},
         put2 \in IF initial_message THEN {"ok", "ClientError"} ELSE {"ok"} :
        \E r \in {start_conversation(memory_table, user_id, now,
                                     initial_message, put1, get, put2,
                                     "ok")} :
            /\ IF ConversationId(user_id, now) \in DOMAIN memory_table
               THEN memory_table[ConversationId(user_id, now)].messages
                        < 2 * MaxReplies
               ELSE Cardinality(DOMAIN memory_table) < MaxConversations
            /\ memory_table' = r.table
            /\ last_call' = [op |-> "start_conversation",
                             user_id |-> user_id, now |-> now,
                             initial_message |-> initial_message,
                             put |-> put1, before |-> memory_table,
                             saved |-> r.saved, result |-> r.result]
            /\ ConversationFrame

\* process_message on a conversation that start_conversation gave out
ConversationMessage ==
    \E user_id \in Users, now \in Timestamps, get \in {"ok", "ClientError"},
       put \in {"ok", "ClientError"} :
      \E conversation_id \in {ConversationId(user_id, now)} :
        /\ conversation_id \in DOMAIN memory_table
        /\ memory_table[conversation_id].messages < 2 * MaxReplies
        /\ \E r \in {process_message(memory_table, conversation_id, get, put,
                                     "ok")} :
            /\ memory_table' = r.table
            /\ last_call' = [op |-> "process_message",
                             conversation_id |-> conversation_id,
                             before |-> memory_table[conversation_id],
                             error |-> r.error,
                             current_stage |-> r.current_stage]
        /\ ConversationFrame

ConversationProfile ==
    \E user_id \in Users, now \in Timestamps, validates \in BOOLEAN :
      \E conversation_id \in {ConversationId(user_id, now)} :
        /\ conversation_id \in DOMAIN memory_table
        /\ last_call' = [op |-> "get_purpose_profile",
                         conversation_id |-> conversation_id,
                         profile |-> get_purpose_profile(memory_table,
                                         conversation_id, "ok", validates)]
        /\ UNCHANGED memory_table
        /\ ConversationFrame

NextConversation ==
    StartConversation \/ ConversationMessage \/ ConversationProfile

SpecConversation == InitConversation /\ [][NextConversation]_vars

-----------------------------------------------------------------------------
(* SpecLifecycle: the operations of one IntegrationAgent, in any order, on a
   cache that holds integration 0 as the tests put it there; integrations 1
   and 2 are the ones it registers *)

\* the step configs a workflow can begin with
StepConfigs == {s[1] : s \in {w \in WorkflowSteps : Len(w) = 1}}

\* the sync configs with at most one endpoint
ShortEndpointLists == {e \in EndpointLists : Len(e) <= 1}

InitLifecycle ==
    /\ InitManager /\ ~has_loop
    /\ session = TRUE
    /\ \E status \in {ACTIVE, PENDING, ERROR} :
           _integration_cache =
               MapPut(EmptyMap, 0, sample_integration_config(0, status, 0, NoTime))
    /\ integrations_table = EmptyMap
    /\ http_requests = 0
    /\ uuids = 0
    /\ last_call = NoOp
    /\ InitNoRetry
    /\ time_now = 24
    /\ webhook_handlers = EmptyMap
    /\ InitNoFlow
    /\ InitNoOnboarding
    /\ InitNoApp

\* the variables an operation of the agent leaves alone
LifecycleFrame == UNCHANGED <<commVars, unitVars>>

\* the store accepts a write or rejects it
StoreOutcomes == {"ok", "ClientError"}

LifecycleRegister ==
    /\ uuids < MaxIntegrations
    /\ http_requests < MaxHttp
    /\ \E put \in StoreOutcomes, endpoint_ok \in BOOLEAN :
           register_integration(GITHUB, put, "ok", endpoint_ok, "ok")
    /\ LifecycleFrame

LifecycleExecute ==
    /\ http_requests < MaxHttp
    /\ \E integration_id \in SyncIds, endpoint_ok \in BOOLEAN,
          put \in StoreOutcomes :
       \E e \in {execute_api_call(_integration_cache, integrations_table,
                                  http_requests, integration_id, "ok",
                                  endpoint_ok, 1, put)} :
        /\ _integration_cache' = e.cache
        /\ integrations_table' = e.table
        /\ http_requests' = e.requests
        /\ last_call' = [op |-> "execute_api_call",
                         integration_id |-> integration_id,
                         raised |-> e.raised, success |-> e.success]
    /\ UNCHANGED <<session, uuids>>
    /\ LifecycleFrame

LifecycleSync ==
    /\ http_requests < MaxHttp
    /\ \E integration_id \in SyncIds, endpoints \in ShortEndpointLists,
          put \in StoreOutcomes :
       \E y \in {sync_data(_integration_cache, integrations_table, http_requests,
                           integration_id, endpoints, "ok", put, time_now)} :
        /\ _integration_cache' = y.cache
        /\ integrations_table' = y.table
        /\ http_requests' = y.requests
        /\ last_call' = [op |-> "sync_data", integration_id |-> integration_id,
                         raised |-> y.raised]
    /\ UNCHANGED <<session, uuids>>
    /\ LifecycleFrame

LifecycleStep ==
    /\ http_requests < MaxHttp
    /\ \E step_config \in StepConfigs, put \in StoreOutcomes :
       \E x \in {_execute_workflow_step(_integration_cache, integrations_table,
                                        http_requests, step_config, "ok", put,
                                        time_now)} :
           /\ _integration_cache' = x.cache
           /\ integrations_table' = x.table
           /\ http_requests' = x.requests
           /\ last_call' = [op |-> "_execute_workflow_step",
                            type |-> step_config.type,
                            success |-> x.step_result.success]
    /\ UNCHANGED <<session, uuids>>
    /\ LifecycleFrame

LifecycleEvent ==
    /\ last_call.op # "handle_webhook_event"
    /\ \E integration_id \in WebhookIds, event_type \in EventTypes :
       \E w \in {handle_webhook_event(webhook_handlers, 1, integration_id,
                                      event_type)} :
        last_call' = [op |-> "handle_webhook_event",
                      processed |-> w.returned.processed]
    /\ UNCHANGED <<session, uuids, _integration_cache, integrations_table,
                   http_requests>>
    /\ LifecycleFrame

LifecycleMonitor ==
    /\ last_call.op # "monitor_integration_health"
    /\ last_call' =
           [op |-> "monitor_integration_health",
            overall_health |->
                monitor_integration_health(_integration_cache,
                                           time_now).overall_health]
    /\ UNCHANGED <<session, uuids, _integration_cache, integrations_table,
                   http_requests>>
    /\ LifecycleFrame

NextLifecycle ==
    \/ LifecycleRegister
    \/ LifecycleExecute
    \/ LifecycleSync
    \/ LifecycleStep
    \/ LifecycleEvent
    \/ LifecycleMonitor

SpecLifecycle == InitLifecycle /\ [][NextLifecycle]_vars

-----------------------------------------------------------------------------
(* SpecDrain: the retry loop of one client whose MQTT connection stays up,
   and sends that end in the offline queue. Message 1, of the lowest
   priority, is queued at the start. A message is named by its time of
   creation; a time is used again once no row in the queue is that old,
   which keeps the order of the rows that dequeue_batch reads *)

\* the message whose way out of the queue is followed
Watched == [Message("u1", LOW, 1) EXCEPT !.retry_count = 0]

\* the latest creation time in the queue
Latest(q) == CHOOSE t \in {r.timestamp : r \in q} :
                 \A r \in q : r.timestamp <= t

InitDrain ==
    /\ has_loop = TRUE
    /\ clients = [u \in {"u1"} |->
                     [NewClient EXCEPT !.protocol_status[MQTT] = CONNECTED]]
    /\ user_sessions = EmptyMap
    /\ session_users = EmptyMap
    /\ tasks = {}
    /\ queue = {Watched}
    /\ clock = 2
    /\ fail_cycles = EmptyMap
    /\ InitHistory
    /\ InitIntegration
    /\ InitNoRetry
    /\ InitNoAgent
    /\ InitNoFlow
    /\ InitNoOnboarding
    /\ InitNoApp

\* send_message of a critical message while the send over MQTT fails: the
\* message is enqueued
DrainEnqueue ==
    /\ queue # {}
    /\ Latest(queue) < MaxStamp
    /\ \E message \in {Message("u1", CRITICAL, Latest(queue) + 1)} :
           /\ queue' = QueuedAfterSend(queue, message, FALSE)
           /\ last_op' = [op |-> "send_message", id |-> message.id]
    /\ UNCHANGED <<clients, clock, fail_cycles>>
    /\ UNCHANGED serverOnly
    /\ UNCHANGED notComm

\* retry_loop wakes up: one run of _process_offline_queue, in which the
\* sends over MQTT all succeed or all fail
DrainCycle ==
    /\ DrainRuns(queue, available_protocols(clients["u1"].protocol_status))
    /\ \E ok \in SendResults(clients["u1"].protocol_status),
          messages \in {dequeue_batch(queue, BatchLimit)} :
        /\ queue' = ProcessBatch(
                        messages,
                        available_protocols(clients["u1"].protocol_status),
                        [i \in 1..BatchLimit |-> ok], queue).queue
        /\ last_op' = [op |-> "_process_offline_queue",
                       batch |-> Min(BatchLimit, Cardinality(queue))]
    /\ UNCHANGED <<clients, clock, fail_cycles>>
    /\ UNCHANGED serverOnly
    /\ UNCHANGED notComm

NextDrain == DrainEnqueue \/ DrainCycle

\* retry_loop runs a cycle every retry_interval seconds for as long as the
\* process lives
SpecDrain == InitDrain /\ [][NextDrain]_vars /\ WF_queue(DrainCycle)

-----------------------------------------------------------------------------
(* SpecRace: concurrent calls of CommunicationManager._initialize_user_client *)
(* The join_user handler and the REST send endpoint run in the server's       *)
(* handler threads; _initialize_user_client takes no lock, so another call    *)
(* can run between its membership test and its store.                         *)

\* the handlers that can be running at once: two sessions and one REST request
InitCallers == {"s1", "s2", "r1"}

Running(caller) == caller \in DOMAIN init_calls

CreatedFor(user_id) == IF user_id \in DOMAIN created THEN created[user_id] ELSE 0

InitRace ==
    /\ InitManager
    /\ InitIntegration
    /\ InitNoRetry
    /\ InitNoAgent
    /\ InitNoFlow
    /\ InitNoOnboarding
    /\ InitNoApp

RaceFrame ==
    UNCHANGED <<integVars, retryVars, agentVars, flowVars, onbVars, webVars,
                reports_table, statusVars, notifVars, chatVars>>

\* handle_join_user up to the call of _initialize_user_client
JoinBegin ==
    \E sid \in Sessions, user_id \in Users :
        /\ ~Running(sid)
        /\ user_sessions' = MapPut(user_sessions, user_id, sid)
        /\ session_users' = MapPut(session_users, sid, user_id)
        /\ init_calls' = MapPut(init_calls, sid,
                                [user_id |-> user_id, at |-> "test"])
        /\ last_op' = [op |-> "join_user", sid |-> sid, user_id |-> user_id,
                       emitted |-> "none"]
        /\ UNCHANGED <<has_loop, clients, queue, clock, tasks, reqs,
                       fail_cycles, created>>
        /\ RaceFrame

\* send_message_rest: its own membership test, then the call or the dispatch
RestBegin ==
    \E user_id \in Users :
        /\ ~Running("r1")
        /\ IF user_id \notin DOMAIN clients
           THEN /\ init_calls' = MapPut(init_calls, "r1",
                                        [user_id |-> user_id, at |-> "test"])
                /\ UNCHANGED tasks
           ELSE /\ tasks' = tasks \cup {[req |-> 0, user_id |-> user_id,
                                         priority |-> NORMAL]}
                /\ UNCHANGED init_calls
        /\ last_op' = [op |-> "send_message_rest", user_id |-> user_id,
                       dispatched |-> user_id \in DOMAIN clients]
        /\ UNCHANGED <<has_loop, clients, user_sessions, session_users, queue,
                       clock, reqs, fail_cycles, created>>
        /\ RaceFrame

\* what the handler does once _initialize_user_client has returned
AfterInitialize(caller, user_id) ==
    IF caller = "r1"
    THEN /\ tasks' = tasks \cup {[req |-> 0, user_id |-> user_id,
                                  priority |-> NORMAL]}
         /\ last_op' = [op |-> "send_message_rest", user_id |-> user_id,
                        dispatched |-> TRUE]
    ELSE /\ UNCHANGED tasks
         /\ last_op' = [op |-> "join_user", sid |-> caller, user_id |-> user_id,
                        emitted |-> "joined"]

\* _initialize_user_client: `if user_id in self.clients: return`
InitTest ==
    \E caller \in DOMAIN init_calls :
        /\ init_calls[caller].at = "test"
        /\ IF init_calls[caller].user_id \in DOMAIN clients
           THEN /\ init_calls' = MapDel(init_calls, caller)
                /\ AfterInitialize(caller, init_calls[caller].user_id)
           ELSE /\ init_calls' = [init_calls EXCEPT ![caller].at = "create"]
                /\ UNCHANGED <<tasks, last_op>>
        /\ UNCHANGED <<has_loop, clients, user_sessions, session_users, queue,
                       clock, reqs, fail_cycles, created>>
        /\ RaceFrame

\* _initialize_user_client: the try block, MultiProtocolClient(user_id) and
\* self.clients[user_id] = client, or the except clause
InitCreate ==
    \E caller \in DOMAIN init_calls :
        /\ init_calls[caller].at = "create"
        /\ \E c \in {MultiProtocolClient(has_loop)} :
              IF c.raised
              THEN UNCHANGED <<clients, created>>
              ELSE /\ clients' = MapPut(clients, init_calls[caller].user_id,
                                        c.client)
                   /\ created' = MapPut(created, init_calls[caller].user_id,
                                    CreatedFor(init_calls[caller].user_id) + 1)
        /\ init_calls' = MapDel(init_calls, caller)
        /\ AfterInitialize(caller, init_calls[caller].user_id)
        /\ UNCHANGED <<has_loop, user_sessions, session_users, queue, clock,
                       reqs, fail_cycles>>
        /\ RaceFrame

NextRace == JoinBegin \/ RestBegin \/ InitTest \/ InitCreate

SpecRace == InitRace /\ [][NextRace]_vars

-----------------------------------------------------------------------------
(* SpecMatch: POST /api/onboard followed by POST /api/match (aws_app.py) *)

\* DataService.get_user_profile: the stored item, None when there is none or
\* get_item raises
get_user_profile(table, user_id, get) == get = "ok" /\ user_id \in DOMAIN table

\* the bodies of /api/match: no JSON object, neither user_id nor session_id,
\* an id
MatchBodies == {"not_json", "no_id", "id"}

\* the route find_matches; invoke_matching_agent answers with an apology in
\* place of the matches when the model call raises
find_matches(table, body, user_id, get, bedrock) ==
    IF body = "not_json" THEN [http |-> 500, matches |-> None]
    ELSE IF body = "no_id" THEN [http |-> 400, matches |-> None]
    ELSE IF ~get_user_profile(table, user_id, get)
    THEN [http |-> 404, matches |-> None]
    ELSE [http |-> 200,
          matches |-> IF bedrock = "ok" THEN "claude_text" ELSE "claude_apology"]

FindMatches ==
    /\ \E body \in MatchBodies, user_id \in SessionIds,
          get \in {"ok", "ClientError"}, bedrock \in {"ok", "ClientError"} :
       \E r \in {find_matches(user_profiles_table, body, user_id, get, bedrock)} :
           last_call' = [op |-> "find_matches", body |-> body,
                         session_id |-> user_id, get |-> get,
                         http |-> r.http, matches |-> r.matches]
    /\ UNCHANGED <<session, _integration_cache, integrations_table,
                   http_requests, uuids>>
    /\ UNCHANGED <<commVars, unitVars>>

NextMatch == OnboardUser \/ FindMatches

SpecMatch == InitOnboard /\ [][NextMatch]_vars

-----------------------------------------------------------------------------
(* SpecChat: the chat routes of the assistant demo (app.py)                  *)
(* /send_message loads the chat file, appends and saves it; the requests run *)
(* in the server's threads, and nothing serialises them.                     *)

Senders == 1..MaxSenders
Posts == 1..MaxPosts

\* the messages of a list, as a set
Posted(messages) == {messages[i] : i \in 1..Len(messages)}

\* DataManager._load_data with default=list: the parsed file; the default
\* when the file does not parse (json.load raises, the error is logged)
_load_data(file) == IF file.json THEN file.messages ELSE <<>>

load_chat_messages(file) == _load_data(file)

InitChat ==
    /\ InitManager /\ ~has_loop
    /\ InitIntegration
    /\ InitNoRetry
    /\ InitNoAgent
    /\ InitNoFlow
    /\ InitNoOnboarding
    /\ InitNoWeb
    /\ InitNoStatus
    /\ InitNoNotification
    /\ InitNoInitialize
    /\ chat_file = [json |-> TRUE, messages |-> <<>>]
    /\ chat_reqs = EmptyMap
    /\ chat_acked = {}
    /\ chat_read = [http |-> 0, messages |-> <<>>, acked |-> {}]
    /\ chat_names \in BOOLEAN

ChatFrame ==
    UNCHANGED <<commVars, integVars, retryVars, agentVars, flowVars, onbVars,
                webVars, reports_table, statusVars, notifVars, initVars>>

\* the messages no request has posted or is posting
Unposted ==
    Posts \ (chat_acked \cup {chat_reqs[r].message : r \in DOMAIN chat_reqs})

\* send_message up to `messages.append(...)`. A request with an empty message
\* is answered 400, and one made when load_chat_messages is not a name of the
\* module is answered 500; neither changes anything
SendLoad ==
    \E r \in Senders \ DOMAIN chat_reqs, message \in Unposted :
        /\ chat_names
        /\ chat_reqs' = MapPut(chat_reqs, r,
                               [message |-> message, at |-> "open",
                                messages |-> Append(load_chat_messages(chat_file),
                                                    message)])
        /\ UNCHANGED <<chat_file, chat_acked, chat_read, chat_names>>
        /\ ChatFrame

\* _save_data: open(file_path, 'w') empties the file; when it raises, the
\* error is logged and raised again and the request is answered with 500
SendOpen ==
    \E r \in DOMAIN chat_reqs, io \in {"ok", "OSError"} :
        /\ chat_reqs[r].at = "open"
        /\ IF io = "ok"
           THEN /\ chat_file' = [json |-> FALSE, messages |-> <<>>]
                /\ chat_reqs' = [chat_reqs EXCEPT ![r].at = "dump"]
           ELSE /\ UNCHANGED chat_file
                /\ chat_reqs' = MapDel(chat_reqs, r)
        /\ UNCHANGED <<chat_acked, chat_read, chat_names>>
        /\ ChatFrame

\* _save_data: json.dump writes the list and the file is closed; the request
\* is answered 'Message sent successfully'
SendDump ==
    \E r \in DOMAIN chat_reqs :
        /\ chat_reqs[r].at = "dump"
        /\ chat_file' = [json |-> TRUE, messages |-> chat_reqs[r].messages]
        /\ chat_acked' = chat_acked \cup {chat_reqs[r].message}
        /\ chat_reqs' = MapDel(chat_reqs, r)
        /\ UNCHANGED <<chat_read, chat_names>>
        /\ ChatFrame

\* the route get_messages
GetMessages ==
    /\ chat_read' = IF chat_names
                    THEN [http |-> 200,
                          messages |-> load_chat_messages(chat_file),
                          acked |-> chat_acked]
                    ELSE [http |-> 500, messages |-> <<>>, acked |-> chat_acked]
    /\ UNCHANGED <<chat_file, chat_reqs, chat_acked, chat_names>>
    /\ ChatFrame

NextChat == SendLoad \/ SendOpen \/ SendDump \/ GetMessages

SpecChat == InitChat /\ [][NextChat]_vars

-----------------------------------------------------------------------------
(* SpecRetry: IntegrationAgent._execute_with_retries, one iteration a step *)

\* what session.request can raise
RequestErrors == {"ClientConnectionError", "TimeoutError", "ClientPayloadError"}

\* the wait growing by 2 seconds a failure
Backoff_linear(k) == 2 * k

\* "await asyncio.sleep(2 ** attempt)  # Exponential backoff"
Backoff(k) == 2 ^ k

\* a call with api_call.retries = n enters the loop
InitRetry ==
    /\ call_retries \in 0..MaxRetries
    /\ attempt = 0
    /\ last_error = None
    /\ retry_outcome = "running"
    /\ errors = <<>>
    /\ sleeps = <<>>
    /\ InitManager /\ ~has_loop
    /\ InitIntegration
    /\ InitNoAgent
    /\ InitNoFlow
    /\ InitNoOnboarding
    /\ InitNoApp

\* one iteration of "for attempt in range(api_call.retries + 1)": the request
\* returns a response, or raises and is followed by the sleep or the raise
_execute_with_retries(result) ==
    /\ retry_outcome = "running"
    /\ attempt < call_retries + 1
    /\ IF result = "response"
       THEN /\ retry_outcome' = "returned"
            /\ UNCHANGED <<attempt, last_error, errors, sleeps>>
       ELSE /\ last_error' = result
            /\ errors' = Append(errors, result)
            /\ IF attempt < call_retries
               THEN /\ sleeps' = Append(sleeps, Backoff(attempt))
                    /\ attempt' = attempt + 1
                    /\ UNCHANGED retry_outcome
               ELSE /\ retry_outcome' = "raised"
                    /\ UNCHANGED <<sleeps, attempt>>
    /\ UNCHANGED call_retries

RequestReturns == _execute_with_retries("response") /\ UNCHANGED notRetry

RequestRaises ==
    \E e \in RequestErrors : _execute_with_retries(e) /\ UNCHANGED notRetry

NextRetry == RequestReturns \/ RequestRaises

SpecRetry == InitRetry /\ [][NextRetry]_vars

-----------------------------------------------------------------------------
(* Properties of MultiProtocolClient (SpecClient) *)

SeqSet(sq) == {sq[i] : i \in 1..Len(sq)}

\* C1: send_message tries WebRTC then MQTT, only where the tracked status is
\* connected, stops at the first send that succeeds, enqueues the message
\* exactly when no send succeeded, and returns True in every case: on return
\* the message was sent on exactly one protocol or is in the offline queue.
C1_SendOrQueue ==
    last_op.op = "send_message" =>
        LET s == last_op
            n == Len(s.tried)
        IN  /\ s.returned
            /\ s.tried \in {<<>>, <<WEBRTC>>, <<MQTT>>, <<WEBRTC, MQTT>>}
            /\ \A p \in SeqSet(s.tried) : s.status[p] = CONNECTED
            /\ s.status[WEBRTC] = CONNECTED => WEBRTC \in SeqSet(s.tried)
            /\ MQTT \in SeqSet(s.tried) <=>
                  /\ s.status[MQTT] = CONNECTED
                  /\ ~(s.status[WEBRTC] = CONNECTED /\ s.results[1])
            /\ Len(s.results) = n
            /\ \A i \in 1..(n - 1) : ~s.results[i]
            /\ s.delivered = IF n > 0 /\ s.results[n] THEN <<s.tried[n]>> ELSE <<>>
            /\ s.in_queue <=> s.delivered = <<>>
            /\ s.id \in Ids(queue) <=> s.in_queue
            /\ Len(s.delivered) = 1 \/ s.in_queue
            /\ ~(Len(s.delivered) = 1 /\ s.in_queue)

\* C1 witness: both protocols connected, both sends failed, message queued
C1_Witness ==
    /\ last_op.op = "send_message"
    /\ last_op.tried = <<WEBRTC, MQTT>>
    /\ last_op.results = <<FALSE, FALSE>>
    /\ last_op.id \in Ids(queue)

\* C2: a drain cycle in which every send of a queued message fails raises its
\* stored retry count by one; the 3rd such failure removes the message, so no
\* message fails in a 4th cycle.
C2_ThreeFailures ==
    /\ \A r \in queue : r.retry_count = fail_cycles[r.id] /\ r.retry_count < 3
    /\ \A m \in DOMAIN fail_cycles :
          /\ fail_cycles[m] <= 3
          /\ fail_cycles[m] = 3 => m \notin Ids(queue)
    /\ last_op.op = "_process_offline_queue" =>
          \A i \in 1..Len(last_op.attempts) :
              LET a == last_op.attempts[i]
                  old == CHOOSE r \in last_op.before : r.id = a.id
              IN  ~a.success =>
                    IF old.retry_count + 1 = 3
                    THEN a.id \notin Ids(last_op.after)
                    ELSE [old EXCEPT !.retry_count = old.retry_count + 1] \in last_op.after

\* C2 witness: a message that started at retry count 0 has just failed for the
\* 3rd time and is gone
C2_Witness ==
    /\ last_op.op = "_process_offline_queue"
    /\ \E i \in 1..Len(last_op.attempts) :
          LET a == last_op.attempts[i] IN
          /\ ~a.success
          /\ fail_cycles[a.id] = 3
          /\ a.id > MaxBacklog \/ BacklogRow(a.id).retry_count = 0
          /\ a.id \notin Ids(queue)

\* priority (highest first), then age (oldest first)
Precedes(a, b) ==
    a.priority > b.priority \/ (a.priority = b.priority /\ a.timestamp < b.timestamp)

\* C3: a drain cycle does nothing unless the queue is non-empty and WebRTC or
\* MQTT is connected; otherwise it attempts the first min(10, size) messages in
\* order of priority then age, tries the connected protocols in turn for each
\* and removes a message at its first successful send.
C3_DrainCycle ==
    last_op.op = "_process_offline_queue" =>
        LET d == last_op
            avail == {p \in LiveProtocols : d.status[p] = CONNECTED}
            n == Len(d.attempts)
            row(i) == CHOOSE r \in d.before : r.id = d.attempts[i].id
            attempted == {d.attempts[i].id : i \in 1..n}
        IN  /\ queue = d.after
            /\ (d.before = {} \/ avail = {}) => n = 0 /\ d.after = d.before
            /\ (d.before # {} /\ avail # {}) =>
                  /\ n = Min(10, Cardinality(d.before))
                  /\ attempted \subseteq Ids(d.before)
                  /\ \A i, j \in 1..n : i < j => Precedes(row(i), row(j))
                  /\ \A r \in d.before :
                        r.id \notin attempted =>
                            /\ r \in d.after
                            /\ \A i \in 1..n : Precedes(row(i), r)
                  /\ \A i \in 1..n :
                        LET a == d.attempts[i]
                            k == Len(a.tried)
                        IN  /\ k >= 1 /\ Len(a.results) = k
                            /\ SeqSet(a.tried) \subseteq avail
                            /\ Cardinality(SeqSet(a.tried)) = k
                            /\ \A x \in 1..(k - 1) : ~a.results[x]
                            /\ a.success <=> a.results[k]
                            /\ a.success => a.id \notin Ids(d.after)
                            /\ ~a.success => SeqSet(a.tried) = avail

\* C3 witness: more than 10 messages queued, 10 attempted, one of them sent at
\* its second protocol and another one failing on both
C3_Witness ==
    /\ last_op.op = "_process_offline_queue"
    /\ Cardinality(last_op.before) > 10
    /\ Len(last_op.attempts) = 10
    /\ \E i, j \in 1..Len(last_op.attempts) :
          /\ last_op.attempts[i].success /\ Len(last_op.attempts[i].tried) = 2
          /\ ~last_op.attempts[j].success /\ Len(last_op.attempts[j].tried) = 2

-----------------------------------------------------------------------------
(* Properties of CommunicationManager (SpecServer, SpecShared) *)

OutcomeEvents == {"message_delivered", "message_error"}

\* the answer of handle_send_message to an accepted / a rejected event
Accepted(e) == e.emitted = "message_sent" /\ e.dispatched
Rejected(e) == e.emitted = "error" /\ ~e.dispatched

\* C4 (as stated): a send_message event from a bound session with non-empty
\* content is acknowledged with message_sent and dispatched, and its send ends
\* with exactly one outcome event, message_delivered or message_error; an event
\* from an unbound session or with empty content gets an error and no dispatch.
C4_AckThenOneOutcome ==
    /\ last_op.op = "send_message_event" =>
          IF last_op.bound /\ last_op.content # ""
          THEN Accepted(last_op) ELSE Rejected(last_op)
    /\ \A i \in 1..Len(reqs) :
          reqs[i].done =>
              /\ Len(reqs[i].outcomes) = 1
              /\ reqs[i].outcomes[1] \in OutcomeEvents

\* C4 (amended): the event is acknowledged and dispatched exactly when the
\* session is bound, the content non-empty and the priority a MessagePriority,
\* and is answered with an error and not dispatched otherwise; a dispatched
\* send emits nothing before it completes and on completion emits one outcome
\* event if its user still has a session bound and none if not.
C4_AckThenAtMostOneOutcome ==
    /\ last_op.op = "send_message_event" =>
          IF last_op.bound /\ last_op.content # "" /\ last_op.priority_valid
          THEN Accepted(last_op) ELSE Rejected(last_op)
    /\ \A i \in 1..Len(reqs) :
          LET r == reqs[i]
              pending == \E t \in tasks : t.req = i
          IN  /\ r.done <=> ~pending
              /\ ~r.done => r.outcomes = <<>>
              /\ r.done =>
                    /\ Len(r.outcomes) = IF r.bound_at_done THEN 1 ELSE 0
                    /\ SeqSet(r.outcomes) \subseteq OutcomeEvents

\* C4 witness: a worker has just run the send of a user who was still bound,
\* and the one message_delivered has been emitted
C4_Witness ==
    /\ \E i \in 1..Len(reqs) :
          /\ reqs[i].done /\ reqs[i].bound_at_done
          /\ reqs[i].outcomes = <<"message_delivered">>
          /\ last_op.op = "send_message"

\* C5: a disconnect step removes no entry of the session maps but those of the
\* disconnecting session, leaves every other entry as it was, and leaves the
\* clients map and the offline queue unchanged.
C5_DisconnectKeepsClient ==
    [][last_op'.op = "disconnect" =>
          LET sid == last_op'.sid IN
          /\ clients' = clients
          /\ queue' = queue
          /\ sid \notin DOMAIN session_users'
          /\ DOMAIN session_users' = DOMAIN session_users \ {sid}
          /\ \A s \in DOMAIN session_users' : session_users'[s] = session_users[s]
          /\ DOMAIN user_sessions' \subseteq DOMAIN user_sessions
          /\ \A u \in DOMAIN user_sessions' : user_sessions'[u] = user_sessions[u]
          /\ \A u \in DOMAIN user_sessions \ DOMAIN user_sessions' :
                user_sessions[u] = sid /\ session_users[sid] = u]_vars

\* C5 witness: a user with a queued message has just disconnected; the client
\* and the message are still there and the user is bound to no session
C5_Witness ==
    /\ last_op.op = "disconnect"
    /\ last_op.user_id \in DOMAIN clients
    /\ last_op.user_id \notin DOMAIN user_sessions
    /\ last_op.sid \notin DOMAIN session_users
    /\ \E r \in queue : r.sender_id = last_op.user_id

\* C6: after a join_user event with a user_id the session is bound to the user
\* in both maps and the clients map holds a client of that user whose retry
\* loop has been started.
C6_JoinCreatesClient ==
    (last_op.op = "join_user" /\ last_op.user_id # None) =>
        LET u == last_op.user_id IN
        /\ u \in DOMAIN user_sessions /\ user_sessions[u] = last_op.sid
        /\ last_op.sid \in DOMAIN session_users /\ session_users[last_op.sid] = u
        /\ u \in DOMAIN clients
        /\ clients[u].retry_task

-----------------------------------------------------------------------------
(* Properties of IntegrationAgent (SpecInteg) *)

\* C8: when the config is persisted and the probed endpoint answers
\* successfully, register_integration returns and caches a config whose status
\* is active.
C8_ProbeSuccessActivates ==
    (/\ last_call.op = "register_integration"
     /\ last_call.endpoint_ok
     /\ last_call.raised = None) =>
        /\ last_call.returned.status = ACTIVE
        /\ last_call.integration_id \in DOMAIN _integration_cache
        /\ _integration_cache[last_call.integration_id].status = ACTIVE

\* C9 (as stated): register_integration raises no error, whatever fails, and
\* returns and caches a config whose status is not active.
C9_NeverRaises ==
    last_call.op = "register_integration" =>
        /\ last_call.raised = None
        /\ last_call.returned # NoConfig
        /\ last_call.integration_id \in DOMAIN _integration_cache
        /\ _integration_cache[last_call.integration_id] = last_call.returned

\* C9 (amended): register_integration raises exactly when persisting the
\* config raised, and then returns and caches nothing; a probe that fails or
\* raises is absorbed, and the config returned and cached is then pending.
C9_RaisesOnlyOnStoreFailure ==
    last_call.op = "register_integration" =>
        LET id == last_call.integration_id IN
        IF last_call.probe = None
        THEN /\ last_call.raised \in {"ClientError", "TypeError"}
             /\ last_call.returned = NoConfig
             /\ id \notin DOMAIN _integration_cache
        ELSE /\ last_call.raised = None
             /\ id \in DOMAIN _integration_cache
             /\ _integration_cache[id] = last_call.returned
             /\ last_call.probe # "ok" => last_call.returned.status = PENDING

\* C9 witness: the probe raised, nothing was raised to the caller and the
\* pending config is cached
C9_Witness ==
    /\ last_call.op = "register_integration"
    /\ last_call.probe \in {NotFound, NotActive}
    /\ last_call.raised = None
    /\ last_call.integration_id \in DOMAIN _integration_cache
    /\ _integration_cache[last_call.integration_id].status = PENDING

\* C10: execute_api_call for an id that is in neither the cache nor the table
\* fails with 'Integration <id> not found', issues no HTTP request and leaves
\* every config in the cache and in the table as it was.
C10_UnknownIntegration ==
    [][(/\ last_call'.op = "execute_api_call"
        /\ ~last_call'.in_cache
        /\ ~last_call'.in_store) =>
           /\ last_call'.raised = NotFound
           /\ http_requests' = http_requests
           /\ _integration_cache' = _integration_cache
           /\ integrations_table' = integrations_table]_vars

\* C10 witness: the call for the unknown id has failed while a registered
\* integration sits in the cache
C10_Witness ==
    /\ last_call.op = "execute_api_call"
    /\ ~last_call.in_cache /\ ~last_call.in_store
    /\ last_call.raised = NotFound
    /\ DOMAIN _integration_cache # {}
    /\ last_call.integration_id \notin DOMAIN _integration_cache

\* C11: execute_api_call for an integration that is found and whose status
\* is not active fails with 'Integration <id> is not active' and issues no
\* HTTP request.
C11_NotActiveRejected ==
    [][(/\ last_call'.op = "execute_api_call"
        /\ last_call'.status \notin {None, ACTIVE, StatusValue(ACTIVE)}) =>
           /\ last_call'.raised = NotActive
           /\ ~last_call'.success
           /\ http_requests' = http_requests]_vars

\* C11 witness: the call for a pending integration, registered in this process
\* or loaded from the table, has failed with the invalid-state error
C11_Witness ==
    /\ last_call.op = "execute_api_call"
    /\ last_call.status \in {PENDING, StatusValue(PENDING)}
    /\ last_call.in_store
    /\ last_call.raised = NotActive

-----------------------------------------------------------------------------
(* Properties of _execute_with_retries (SpecRetry) *)

\* C12: a call with retries = n makes at most n+1 attempts and stops at the
\* first one that succeeds; the wait after the k-th failed attempt (k from 0)
\* is 2^k seconds; when all n+1 attempts fail the error of the last one is
\* raised with no wait after it. With retries = 3 and every attempt failing
\* that is 4 attempts and the waits 1, 2, 4.
C12_RetryBackoff ==
    LET made == IF retry_outcome = "running" THEN attempt ELSE attempt + 1
    IN  /\ made <= call_retries + 1
        /\ Len(errors) = IF retry_outcome = "returned" THEN made - 1 ELSE made
        /\ Len(sleeps) = attempt
        /\ \A k \in 1..Len(sleeps) : sleeps[k] = 2 ^ (k - 1)
        /\ retry_outcome = "raised" =>
              /\ made = call_retries + 1
              /\ Len(sleeps) = call_retries
              /\ last_error = errors[Len(errors)]
        /\ (retry_outcome = "raised" /\ call_retries = 3) =>
              Len(errors) = 4 /\ sleeps = <<1, 2, 4>>

\* C12 witness: retries = 3, four failed attempts, the last error raised
C12_Witness ==
    /\ call_retries = 3
    /\ retry_outcome = "raised"
    /\ Len(errors) = 4
    /\ errors[3] # errors[4]
    /\ last_error = errors[4]

-----------------------------------------------------------------------------
(* Properties of orchestrate_workflow (SpecWorkflow) *)

\* C13: the steps run in list order: the executed steps are the first wf_pos
\* steps of the list and the trace holds exactly these, in order; no step runs
\* after a failed step that is not flagged continue_on_failure; and the
\* success flag is false exactly when some executed step failed, flagged or
\* not.
C13_StepsInOrder ==
    /\ last_call.executed = [i \in 1..wf_pos |-> wf_steps[i].name]
    /\ Len(wf_results.steps) = wf_pos
    /\ \A i \in 1..wf_pos : wf_results.steps[i].name = wf_steps[i].name
    /\ \A i \in 1..wf_pos :
           (~wf_results.steps[i].success /\ ~wf_steps[i].continue_on_failure)
               => (wf_pos = i /\ wf_state = "returned")
    /\ wf_results.success = (\A i \in 1..wf_pos : wf_results.steps[i].success)
    /\ wf_state = "returned" =>
           \/ wf_pos = Len(wf_steps)
           \/ (~wf_results.steps[wf_pos].success
               /\ ~wf_steps[wf_pos].continue_on_failure)

\* C13 witness: three steps, the second failed and flagged, all three are in
\* the returned trace and success is false
C13_Witness ==
    /\ wf_state = "returned"
    /\ Len(wf_steps) = 3
    /\ Len(wf_results.steps) = 3
    /\ wf_results.steps[1].success
    /\ ~wf_results.steps[2].success
    /\ wf_steps[2].continue_on_failure
    /\ wf_results.steps[3].success
    /\ ~wf_results.success

-----------------------------------------------------------------------------
(* Properties of sync_data (SpecSync) *)

\* the values of field f of the elements of a sequence
Field(seq, f) == [i \in 1..Len(seq) |-> seq[i][f]]

\* the endpoint configs of a sync that could be synced, and those that could not
Synced(call) ==
    SelectSeq(call.endpoints,
              LAMBDA c : c.endpoint # None /\ c.ok
                         /\ _integration_cache[call.integration_id].status = ACTIVE)

NotSynced(call) ==
    SelectSeq(call.endpoints,
              LAMBDA c : ~(c.endpoint # None /\ c.ok
                           /\ _integration_cache[call.integration_id].status = ACTIVE))

\* C14: a sync of a known integration calls every endpoint of the list once,
\* in list order, whatever the earlier ones did; every endpoint config is in
\* exactly one of endpoints_synced and errors; success is true exactly when
\* errors is empty; and last_sync_at of the integration is the time of the
\* sync whether or not an endpoint failed.
C14_SyncEveryEndpoint ==
    (last_call.op = "sync_data" /\ last_call.raised # NotFound) =>
        /\ last_call.calls =
               Field(SelectSeq(last_call.endpoints, LAMBDA c : c.endpoint # None),
                     "endpoint")
        /\ Field(last_call.results.endpoints_synced, "endpoint") =
               Field(Synced(last_call), "endpoint")
        /\ Len(last_call.results.errors) = Len(NotSynced(last_call))
        /\ Len(last_call.results.endpoints_synced) + Len(last_call.results.errors)
               = Len(last_call.endpoints)
        /\ last_call.results.success = (last_call.results.errors = <<>>)
        /\ _integration_cache[last_call.integration_id].last_sync_at
               = datetime(time_now)
        /\ last_call.raised = None =>
               integrations_table[last_call.integration_id].last_sync_at
                   = isoformat(datetime(time_now))

\* C14 witness: a returned sync of three endpoints whose second one failed and
\* whose third one was synced, with last_sync_at moved from 0 to the time of
\* the sync
C14_Witness ==
    /\ last_call.op = "sync_data"
    /\ last_call.raised = None
    /\ Len(last_call.endpoints) = 3
    /\ Field(last_call.results.endpoints_synced, "endpoint") = <<"/users", "/teams">>
    /\ Field(last_call.results.errors, "endpoint") = <<"/repos">>
    /\ last_call.endpoints[2].endpoint = "/repos"
    /\ ~last_call.results.success
    /\ _integration_cache[0].last_sync_at = datetime(24)

-----------------------------------------------------------------------------
(* Properties of handle_webhook_event (SpecWebhook) *)

\* the handler of the last of these registrations, the default one if none
LastHandler(matching) ==
    IF matching = <<>> THEN DefaultHandler
    ELSE matching[Len(matching)].handler

\* what handle_webhook_event is to return when it has invoked a handler
ReportsHandler(call) ==
    /\ call.raised = None
    /\ call.returned.event_id \in 1..uuids
    /\ IF call.invoked = "handler_raising"
       THEN /\ ~call.returned.processed
            /\ call.returned.error = "RuntimeError: handler failed"
       ELSE /\ call.returned.processed
            /\ call.returned.result.status =
                   IF call.invoked = DefaultHandler THEN "acknowledged"
                   ELSE call.invoked

\* C15 as stated: the handler invoked is the one most recently registered for
\* exactly the (integration_id, event_type) pair of the event, the default
\* handler when none was registered for that pair.
C15_HandlerOfThePair ==
    last_call.op = "handle_webhook_event" =>
        /\ ReportsHandler(last_call)
        /\ last_call.invoked =
               LastHandler(SelectSeq(last_call.registrations,
                   LAMBDA r : /\ r.integration_id = last_call.integration_id
                              /\ r.event_type = last_call.event_type))

\* C15 amended: handle_webhook_event never raises; the handler invoked is the
\* one most recently registered under the key "<integration_id>:<event_type>"
\* of the event, the default acknowledging handler when there is none; it
\* returns processed = true with the handler's result, and processed = false
\* with the error text when the handler raised.
C15_HandlerOfTheKey ==
    last_call.op = "handle_webhook_event" =>
        /\ ReportsHandler(last_call)
        /\ last_call.invoked =
               LastHandler(SelectSeq(last_call.registrations,
                   LAMBDA r : handler_key(r.integration_id, r.event_type) =
                              handler_key(last_call.integration_id,
                                          last_call.event_type)))

\* C15 witness: two handlers were registered for the pair of the event, the
\* second one raises and the event comes back unprocessed with its error
C15_Witness ==
    /\ last_call.op = "handle_webhook_event"
    /\ Len(last_call.registrations) >= 2
    /\ \A i \in 1..2 :
           /\ last_call.registrations[i].integration_id = last_call.integration_id
           /\ last_call.registrations[i].event_type = last_call.event_type
    /\ last_call.registrations[1].handler = "handler_1"
    /\ last_call.registrations[2].handler = "handler_raising"
    /\ Len(last_call.registrations) = 2
    /\ ~last_call.returned.processed
    /\ last_call.returned.error = "RuntimeError: handler failed"

-----------------------------------------------------------------------------
(* Properties of _update_integration_health (SpecCounters) *)

\* C16: every update for a successful call lowers error_count of the
\* integration by one, but not below 0, and clears last_error; every update
\* for a failed call raises error_count by one; error_count is never negative.
C16_HealthCounters ==
    /\ [](\A i \in DOMAIN _integration_cache :
              _integration_cache[i].error_count >= 0)
    /\ [][(/\ last_call'.op = "_update_integration_health"
           /\ last_call'.integration_id \in DOMAIN _integration_cache) =>
              LET before == _integration_cache[last_call'.integration_id]
                  after == _integration_cache'[last_call'.integration_id]
              IN  IF last_call'.success
                  THEN /\ after.error_count =
                              IF before.error_count = 0 THEN 0
                              ELSE before.error_count - 1
                       /\ after.last_error = None
                  ELSE /\ after.error_count = before.error_count + 1
                       /\ after.last_error = before.last_error]_vars

\* C16 witness: the update for a successful call has left integration 0 with
\* 0 errors and no last error, and has stored it so
C16_Witness ==
    /\ last_call.op = "_update_integration_health"
    /\ last_call.integration_id = 0
    /\ last_call.success
    /\ _integration_cache[0].error_count = 0
    /\ _integration_cache[0].last_error = None
    /\ 0 \in DOMAIN integrations_table
    /\ integrations_table[0].error_count = 0

-----------------------------------------------------------------------------
(* Properties of the health checks (SpecHealth) *)

\* 1 if the condition holds, 0 if not
Count(condition) == IF condition THEN 1 ELSE 0

\* C17: the issues of a config are exactly error_count > 10, a last sync more
\* than 24 hours ago and a status that is not active, and the score is 1.0
\* less 0.2 for each of them, within [0, 1]: 1.0 with none of them and 0.4
\* with all three, as for 15 errors, a sync 48 hours ago and status error.
C17_ScoreIsExact ==
    (last_call.op = "_check_integration_health" /\ last_call.health.raised = None) =>
        LET config == last_call.config
            n == Count(config.error_count > 10)
                 + Count(/\ config.last_sync_at # NoTime
                         /\ time_now - config.last_sync_at.hours > 24)
                 + Count(config.status # ACTIVE)
        IN  /\ Len(last_call.health.issues) = n
            /\ last_call.health.score = Float(10 - 2 * n)

\* C18: the report says 'unhealthy' when the score of some cached integration
\* is below 0.5, else 'degraded' when some cached integration has an issue,
\* else 'healthy'; and every integration that has an issue is in the issues
\* of the report.
C18_OverallHealth ==
    (last_call.op = "monitor_integration_health" /\ last_call.report.raised = None) =>
        LET report == last_call.report
            with_issue == {i \in DOMAIN report.integrations :
                               report.integrations[i].issues # <<>>}
        IN  /\ report.overall_health =
                   IF \E i \in DOMAIN report.integrations :
                          FloatLess(report.integrations[i].health_score, Float(5))
                   THEN "unhealthy"
                   ELSE IF with_issue # {} THEN "degraded"
                   ELSE "healthy"
            /\ with_issue = {report.issues[k].integration_id :
                                 k \in 1..Len(report.issues)}

-----------------------------------------------------------------------------
(* Properties of the onboarding agent (SpecOnboarding) *)

\* the place of a stage in Stages
StageIndex(stage) == CHOOSE k \in 1..Len(Stages) : Stages[k] = stage

\* what has to hold of the collected data for a stage to be left
TransitionPredicate(stage, d) ==
    CASE stage = "greeting" -> TRUE
      [] stage = "values_discovery" -> d.core_values >= 3
      [] stage = "passions_exploration" -> d.passions >= 2
      [] stage = "work_style_assessment" ->
             d.collaboration_preference /\ d.autonomy_preference
      [] stage = "skills_inventory" -> d.technical_skills + d.soft_skills >= 3
      [] stage = "personality_assessment" ->
             /\ d.personality = Traits
             /\ 4 * Min(d.core_values, 5) + 4 * Min(d.passions, 5)
                + 3 * Min(d.technical_skills + d.soft_skills, 10)
                + 5 * ((IF d.collaboration_preference THEN 1 ELSE 0)
                       + (IF d.autonomy_preference THEN 1 ELSE 0)
                       + (IF d.structure_preference THEN 1 ELSE 0))
                + 3 * d.personality >= 70
      [] stage = "profile_completion" -> TRUE
      [] OTHER -> FALSE

\* C19: a message leaves the stage of its conversation where it is or moves it
\* to the stage that follows it in greeting, values_discovery,
\* passions_exploration, work_style_assessment, skills_inventory,
\* personality_assessment, profile_completion, completed; it moves it only if
\* the transition predicate of the stage holds, and reports a stage other
\* than the one it found only then.
C19_StageOrder ==
    [][\A c \in DOMAIN memory_table :
           LET old == memory_table[c]
               new == memory_table'[c]
           IN  /\ c \in DOMAIN memory_table'
               /\ \/ new.current_stage = old.current_stage
                  \/ /\ StageIndex(new.current_stage) = StageIndex(old.current_stage) + 1
                     /\ TransitionPredicate(old.current_stage, old.profile_data)
                     /\ last_call'.op = "process_message"
               /\ (last_call'.op = "process_message" /\ last_call'.conversation_id = c
                   /\ last_call'.error = None) =>
                      last_call'.current_stage =
                          IF TransitionPredicate(old.current_stage, old.profile_data)
                          THEN Stages[StageIndex(old.current_stage) + 1]
                          ELSE old.current_stage]_vars

\* C19 witness: a conversation has gone through all the stages
C19_Witness ==
    /\ memory_table["c1"].current_stage = "completed"
    /\ memory_table["c1"].messages = 14
    /\ last_call.op = "process_message"
    /\ last_call.current_stage = "completed"

\* C20: get_purpose_profile returns a profile only for a conversation that
\* exists, has core values, passions, technical skills and soft skills, and a
\* stored confidence score of at least 0.8; the status of the profile is
\* ready_for_matching if that score is at least 0.9, else onboarding.
C20_ProfileGate ==
    (last_call.op = "get_purpose_profile" /\ last_call.profile # NoProfile) =>
        /\ last_call.conversation_id \in DOMAIN memory_table
        /\ LET memory == memory_table[last_call.conversation_id]
           IN  /\ memory.profile_data.core_values > 0
               /\ memory.profile_data.passions > 0
               /\ memory.profile_data.technical_skills > 0
               /\ memory.profile_data.soft_skills > 0
               /\ memory.confidence_score >= 80
               /\ last_call.profile.status =
                      IF memory.confidence_score >= 90 THEN READY_FOR_MATCHING
                      ELSE ONBOARDING

\* C20 witness: a profile with status onboarding, from a confidence of 0.89
C20_Witness ==
    /\ last_call.op = "get_purpose_profile"
    /\ last_call.profile # NoProfile
    /\ last_call.profile.status = ONBOARDING
    /\ memory_table[last_call.conversation_id].confidence_score = 89

-----------------------------------------------------------------------------
(* Properties of process_message's replies (SpecOnboarding) *)

\* the reply texts process_message can return
ReplyTexts ==
    {"claude_text", "claude_apology", "profile_summary", "not_found_reply",
     "error_reply"}

\* C21: process_message always returns a reply text; for a conversation id
\* that is not in the table it returns the conversation_not_found error reply
\* and writes nothing; and whenever the result carries an error the stored
\* memory is what it was before the call.
C21_AlwaysReplies ==
    last_call.op = "process_message" =>
        /\ last_call.response \in ReplyTexts
        /\ last_call.conversation_id \notin DOMAIN last_call.before =>
               /\ last_call.error = "conversation_not_found"
               /\ last_call.response = "not_found_reply"
               /\ memory_table = last_call.before
        /\ last_call.error # None => memory_table = last_call.before
        /\ last_call.error = None => last_call.response # "error_reply"

\* C21 witness: a message to the stored conversation in stage completed, with
\* the store answering, came back as the error reply and the memory is as it
\* was
C21_Witness ==
    /\ last_call.op = "process_message"
    /\ last_call.conversation_id = "c1"
    /\ last_call.before["c1"].current_stage = "completed"
    /\ last_call.error = "AttributeError"
    /\ last_call.response = "error_reply"
    /\ memory_table = last_call.before

-----------------------------------------------------------------------------
(* Properties of POST /api/onboard (SpecOnboard) *)

\* the number of turns in the history of a session, 0 when it has none
HistoryLen(sessions, session_id) ==
    IF session_id \in DOMAIN sessions THEN Len(sessions[session_id].messages)
    ELSE 0

\* C22: an accepted message adds exactly one turn to the history of its
\* session; the answer says ready_for_matching:true exactly when the
\* confidence of this turn is at least 90, and then a profile with status
\* ready_for_matching is in the table for the session; otherwise the answer
\* says false and the table is as it was.
C22_ReadyIffPersisted ==
    (last_call.op = "onboard_user" /\ last_call.body = "message") =>
        /\ HistoryLen(conversation_sessions, last_call.session_id) =
               HistoryLen(last_call.before.sessions, last_call.session_id) + 1
        /\ last_call.ready_for_matching = (last_call.confidence_score >= 90)
        /\ last_call.ready_for_matching =>
               /\ last_call.session_id \in DOMAIN user_profiles_table
               /\ user_profiles_table[last_call.session_id].status =
                      "ready_for_matching"
        /\ ~last_call.ready_for_matching =>
               user_profiles_table = last_call.before.table

-----------------------------------------------------------------------------
(* Properties of find_team_matches (SpecMatching) *)

\* the hits the search returned to find_team_matches
Returned(call) == SubSeq(call.hits, 1, Min(Len(call.hits), call.limit))

\* C23: when the embedding, the search and the explanation succeed, every hit,
\* whatever its raw score s >= 0, has its TeamMatch in the result, with the
\* overall score and the four alignment scores all equal to min(s / 10, 1.0).
C23_AllScoresClamped ==
    (/\ last_call.op = "find_team_matches"
     /\ last_call.bedrock = "ok" /\ last_call.search = "ok"
     /\ last_call.claude = "ok") =>
        /\ Len(last_call.matches) = Len(Returned(last_call))
        /\ \A i \in 1..Len(last_call.matches) :
               LET s == Returned(last_call)[i]
                   m == last_call.matches[i].match_score
               IN  /\ m.overall_score = Min(s, 100)
                   /\ m.skill_alignment = Min(s, 100)
                   /\ m.value_alignment = Min(s, 100)
                   /\ m.work_style_compatibility = Min(s, 100)
                   /\ m.purpose_alignment = Min(s, 100)

-----------------------------------------------------------------------------
(* Properties of _generate_health_alerts (SpecAlerts) *)

\* C25: there is one warning alert for exactly the indicators whose value is
\* below its threshold, and its severity is high if the value is below
\* threshold * 0.8 and medium otherwise, medium also at threshold * 0.8.
C25_AlertSeverity ==
    last_call.op = "_generate_health_alerts" =>
        LET alerts == last_call.alerts
            AlertsOf(t) == {k \in 1..Len(alerts) : alerts[k].category = t.category}
        IN  \A j \in 1..Len(Thresholds) :
                LET t == Thresholds[j]
                    value == last_call.indicators[t.indicator]
                IN  /\ Cardinality(AlertsOf(t)) =
                           (IF value < t.threshold THEN 1 ELSE 0)
                    /\ \A k \in AlertsOf(t) :
                           /\ alerts[k].type = "warning"
                           /\ alerts[k].severity =
                                  (IF 2 * value < SeverityCut(t.threshold)
                                   THEN "high" ELSE "medium")

-----------------------------------------------------------------------------
(* Properties of analyze_team_performance (SpecAnalyze) *)

\* C26: for a team that has no record the call fails with the not-found
\* error, having queried no metrics, called no model and stored no report;
\* for a team that has one, is found and whose report cannot be stored, the
\* call raises nothing and returns the report.
C26_NotFoundOrReport ==
    last_call.op = "analyze_team_performance" =>
        /\ last_call.team_id \notin DOMAIN TeamsTable =>
               /\ last_call.raised = "ValueError: Team not found"
               /\ last_call.metrics_queries = 0
               /\ last_call.bedrock_calls = 0
               /\ reports_table = last_call.before
        /\ (last_call.team_id \in DOMAIN TeamsTable /\ last_call.get = "ok") =>
               /\ last_call.raised = None
               /\ last_call.report # NoReport
               /\ last_call.report.team_id = last_call.team_id
               /\ last_call.put # "ok" => reports_table = last_call.before

\* C26 witness: team "t1" was analysed, put_item failed, and the report came
\* back with nothing raised and nothing stored
C26_Witness ==
    /\ last_call.op = "analyze_team_performance"
    /\ last_call.team_id = "t1"
    /\ last_call.get = "ok"
    /\ last_call.put = "ClientError"
    /\ last_call.raised = None
    /\ last_call.report # NoReport
    /\ reports_table = last_call.before

-----------------------------------------------------------------------------
(* Properties of the team and coaching routes (SpecRoutes) *)

\* C27: a route answers with the status the tool function reported when that
\* is 400 or 404, with 500 when the invocation of the function failed, and
\* never with 200 when the outcome is an error.
C27_ErrorStatus ==
    last_call.op = "request" =>
        /\ (last_call.invoked /\ last_call.lambda = "ok"
            /\ last_call.statusCode \in {400, 404}) =>
               last_call.http = last_call.statusCode
        /\ (last_call.invoked /\ last_call.lambda # "ok") =>
               last_call.http = 500
        /\ last_call.error # None => last_call.http # 200


\* C28: every change of a protocol client's status is recorded, so that
\* protocol_status of a protocol equals the status of its client; and each
\* recorded change is broadcast to every registered status handler
C28_StatusTracked ==
    /\ \A p \in DOMAIN sub_status : protocol_status[p] = sub_status[p]
    /\ last_call.op \in {"mqtt_callback", "on_connectionstatechange"}
           => Len(status_calls) = Len(status_handlers)


\* the score the formula of the description gives, in ten-thousandths: each
\* ratio as a percentage, capped, times the weight of its part
StatedConfidence(d) ==
    LET set(f) == IF d[f] THEN 1 ELSE 0
        work_style == set("collaboration_preference")
                      + set("autonomy_preference")
                      + set("structure_preference")
    IN  Min((100 * d.core_values) \div 5, 100) * 20
        + Min((100 * d.passions) \div 5, 100) * 20
        + Min((100 * (d.technical_skills + d.soft_skills)) \div 10, 100) * 30
        + (100 * work_style * 15) \div 3
        + (100 * d.personality * 15) \div Traits

\* 5 core values, 5 passions, 6 technical and 4 soft skills, every work style
\* field and every personality field
FullProfile ==
    [core_values |-> 5, passions |-> 5, technical_skills |-> 6,
     soft_skills |-> 4, collaboration_preference |-> TRUE,
     autonomy_preference |-> TRUE, structure_preference |-> TRUE,
     personality |-> Traits]

\* C30: the confidence is the weighted sum of the description, lies in
\* [0, 1], does not decrease when an item is added to the profile, and is 1.0
\* for the full profile
C30_Confidence ==
    last_call.op = "_calculate_profile_confidence"
        => /\ 100 * last_call.confidence
                  = StatedConfidence(last_call.profile_data)
           /\ last_call.confidence \in 0..100
           /\ last_call.before <= last_call.confidence
           /\ last_call.profile_data = FullProfile
                  => last_call.confidence = 100

\* an item completes the full profile
C30_Witness ==
    /\ last_call.op = "_calculate_profile_confidence"
    /\ last_call.profile_data = FullProfile
    /\ last_call.before < 100


\* C29: at most one detection thread is alive; start while running makes no
\* thread; stop when not running changes nothing; when stop returns no
\* detection thread is alive
C29_StartStopIdempotent ==
    /\ Cardinality(Alive(threads)) <= 1
    /\ last_call.op = "start" /\ last_call.was_running
           => DOMAIN threads = last_call.threads_before /\ running
    /\ last_call.op \in {"stop", "stop_returned"}
           => DOMAIN threads = last_call.threads_before
    /\ last_call.op = "stop_returned" => Alive(threads) = {}

\* stop has returned from joining the last thread the service started, which
\* had checked for notifications
C29_Witness ==
    /\ last_call.op = "stop_returned"
    /\ thread = MaxStarts
    /\ ~threads[thread].alive
    /\ threads[thread].checks > 0



\* C31: start_conversation without an initial message hands the new memory
\* to the store exactly once, at stage greeting, under the id
\* onboarding-<user>-<time>, which holds it when the write is accepted, and
\* returns the greeting: stage values_discovery, profile not complete,
\* confidence 0.0
C31_StartSavesGreeting ==
    last_call.op = "start_conversation" /\ ~last_call.initial_message
        => LET id == last_call.result.conversation_id IN
           /\ id = <<"onboarding", last_call.user_id, last_call.now>>
           /\ Len(last_call.saved) = 1
           /\ last_call.saved[1].user_id = last_call.user_id
           /\ last_call.saved[1].current_stage = "greeting"
           /\ last_call.put = "ok"
                  => memory_table = MapPut(last_call.before, id,
                                           last_call.saved[1])
           /\ last_call.put # "ok" => memory_table = last_call.before
           /\ last_call.result.response = "greeting_text"
           /\ last_call.result.current_stage = "values_discovery"
           /\ last_call.result.profile_complete = FALSE
           /\ last_call.result.confidence_score = 0

\* a conversation is started without a message for a user who has another
\* conversation already, and the memory is stored
C31_Witness ==
    /\ last_call.op = "start_conversation"
    /\ ~last_call.initial_message
    /\ last_call.put = "ok"
    /\ last_call.before # EmptyMap
    /\ last_call.result.conversation_id \notin DOMAIN last_call.before
    /\ last_call.result.conversation_id \in DOMAIN memory_table

\* C32: process_message leaves profile_data and confidence_score as they
\* were, so a started conversation stays at greeting or values_discovery
\* with the empty profile, and get_purpose_profile returns nothing for it
C32_NoFieldPopulation ==
    /\ \A c \in DOMAIN memory_table :
           /\ memory_table[c].profile_data = EmptyProfile
           /\ memory_table[c].confidence_score = 0
           /\ memory_table[c].current_stage
                  \in {"greeting", "values_discovery"}
    /\ last_call.op = "process_message" /\ last_call.error = None
           => /\ last_call.current_stage = "values_discovery"
              /\ memory_table[last_call.conversation_id].profile_data
                     = last_call.before.profile_data
              /\ memory_table[last_call.conversation_id].confidence_score
                     = last_call.before.confidence_score
    /\ last_call.op = "get_purpose_profile" => last_call.profile = NoProfile

\* a started conversation has taken all its messages, and the last one was
\* handled in the values discovery
C32_Witness ==
    /\ last_call.op = "process_message"
    /\ last_call.error = None
    /\ last_call.before.current_stage = "values_discovery"
    /\ memory_table[last_call.conversation_id].messages = 2 * MaxReplies


\* the status of a config as a string, whether its field holds a member of
\* IntegrationStatus or the string read from the store
StatusOf(config) ==
    IF config.status \in IntegrationStatus THEN StatusValue(config.status)
    ELSE config.status

\* C33: a step of the agent keeps every cached integration in the cache with
\* the status it had; an integration enters the cache as active only by a
\* registration whose probe succeeded, and as pending otherwise
C33_StatusFrame ==
    [][/\ \A i \in DOMAIN _integration_cache :
              /\ i \in DOMAIN _integration_cache'
              /\ StatusOf(_integration_cache'[i])
                     = StatusOf(_integration_cache[i])
       /\ \A i \in DOMAIN _integration_cache' \ DOMAIN _integration_cache :
              /\ StatusOf(_integration_cache'[i]) \in {"pending", "active"}
              /\ StatusOf(_integration_cache'[i]) = "active"
                     => /\ last_call'.op = "register_integration"
                        /\ last_call'.probe = "ok"]_vars

\* a failed API call has raised the error count of the cached integration 0
\* after two integrations were registered
C33_Witness ==
    /\ last_call.op = "execute_api_call"
    /\ last_call.integration_id = 0
    /\ ~last_call.success
    /\ _integration_cache[0].error_count > 0
    /\ {1, 2} \subseteq DOMAIN _integration_cache


\* C34: every row of the offline queue has a stored retry count of 0, 1 or 2,
\* at the start, after a send that enqueues and after every drain cycle
C34_StoredRetryCounts ==
    /\ \A r \in queue : r.retry_count \in 0..(max_retries - 1)
    /\ last_op.op = "_process_offline_queue"
           => \A r \in last_op.after : r.retry_count \in {0, 1, 2}

\* a drain cycle has failed for a message that is kept with retry count 2,
\* and has discarded another one
C34_Witness ==
    /\ last_op.op = "_process_offline_queue"
    /\ \E i, j \in 1..Len(last_op.attempts) :
          /\ ~last_op.attempts[i].success
          /\ \E r \in queue : r.id = last_op.attempts[i].id /\ r.retry_count = 2
          /\ ~last_op.attempts[j].success
          /\ last_op.attempts[j].id \notin Ids(queue)


\* C35: with a live protocol connected and the drain cycles running, a
\* message in the offline queue leaves it in the end, whatever is enqueued
\* after it
C35_QueuedMessageLeaves ==
    (Watched.id \in Ids(queue)) ~> (Watched.id \notin Ids(queue))


(* C36: after any sequence of join_user and disconnect events the two       *)
(* session maps agree: whenever user_sessions maps user u to session s,     *)
(* session s is still bound (it has joined and not disconnected since) and  *)
(* session_users maps s back to u.                                          *)
C36_SessionMapsAgree ==
    \A u \in DOMAIN user_sessions :
        /\ user_sessions[u] \in DOMAIN session_users
        /\ session_users[user_sessions[u]] = u

C38_CompletedPassesGate ==
    \A c \in DOMAIN memory_table :
        ( /\ last_call.op = "process_message"
          /\ last_call.conversation_id = c
          /\ c \in DOMAIN last_call.before
          /\ last_call.before[c].current_stage # "completed"
          /\ memory_table[c].current_stage = "completed" )
        => _check_profile_completion(memory_table[c])

\* some /api/onboard request answered ready_for_matching:true for the session:
\* the answer is ready exactly when the turn it stored has confidence >= 90
AnsweredReady(session_id) ==
    /\ session_id \in DOMAIN conversation_sessions
    /\ \E i \in 1..Len(conversation_sessions[session_id].messages) :
           conversation_sessions[session_id].messages[i].confidence_score >=
               ReadyThreshold

(* C39: whenever POST /api/onboard answered ready_for_matching:true for a   *)
(* session id, a later POST /api/match with that session id, whose read of  *)
(* the profile store succeeds, finds the profile and does not answer 404,   *)
(* also when the profile store rejected the write.                          *)
C39_ReadyThenMatched ==
    ( /\ last_call.op = "find_matches"
      /\ last_call.body = "id"
      /\ last_call.get = "ok"
      /\ AnsweredReady(last_call.session_id) )
    => last_call.http # 404

====
